---------------------------- MODULE Spec2Model ----------------------------
(***************************************************************************)
(* A model of the transaction-execution core of the AgenC operator:        *)
(*   - PolicyGate            crates/operator-core/src/policy_gate.rs       *)
(*   - the Tauri orchestrator src-tauri/src/lib.rs                         *)
(*   - TransactionSender     crates/operator-core/src/transaction_retry.rs *)
(*                                                                         *)
(* Money.  The source counts lamports in a u64 (10^9 lamports per SOL) and *)
(* reads SOL amounts as f64.  TLC's integers are 32 bits wide, so the      *)
(* model counts in coarser units: UnitsPerSol units make one SOL, and the  *)
(* u64 is a WordBits-bit unsigned word.  Every amount, threshold and limit *)
(* is expressed in those units; the arithmetic (truncating/saturating      *)
(* cast, unchecked addition, comparison against the limit) is the          *)
(* source's.                                                               *)
(***************************************************************************)
EXTENDS Integers, Sequences, FiniteSets, TLC

(***************************************************************************)
(* Bounds of the model.                                                    *)
(***************************************************************************)
\* Model units per SOL (the source has 1_000_000_000 lamports per SOL).
UnitsPerSol == 10
\* Width of the model's unsigned word standing for the source's u64.
WordBits == 10

RECURSIVE Pow2(_)
Pow2(n) == IF n = 0 THEN 1 ELSE 2 * Pow2(n - 1)

\* u64::MAX of the model's word.
U64_MAX == Pow2(WordBits) - 1

\* n SOL in model units.
Sol(n) == n * UnitsPerSol
\* One tenth of a SOL in model units (0.1 SOL, the default voice-only maximum).
DeciSol == UnitsPerSol \div 10

(***************************************************************************)
(* policy_gate.rs: constants.                                              *)
(***************************************************************************)
HIGH_VALUE_THRESHOLD_SOL == 1
SESSION_LIMIT_SOL == 10

(***************************************************************************)
(* types.rs: IntentAction, its Debug name and its serde (snake_case) name. *)
(* A string is a sequence of tokens; a token is a word with its case, or   *)
(* the underscore.  "CreateTask" is <<Create, Task>>, "createtask" is      *)
(* <<create, task>> and "create_task" is <<create, _, task>>.              *)
(***************************************************************************)
IntentAction ==
    { "CreateTask", "ClaimTask", "CompleteTask", "CancelTask", "ListOpenTasks",
      "GetTaskStatus", "GetBalance", "GetAddress", "GetProtocolState",
      "CodeFix", "CodeReview", "CodeGenerate", "CodeExplain",
      "SwapTokens", "GetSwapQuote", "GetTokenPrice",
      "PostTweet", "PostThread", "PostDiscord", "PostDiscordEmbed",
      "SendEmail", "SendBulkEmail", "GenerateImage",
      "CreateGist", "CreateGitHubIssue", "AddGitHubComment",
      "TriggerGitHubWorkflow", "Help", "Unknown" }

\* The words of a variant's identifier, split at its capital letters.
VariantWords(a) ==
    CASE a = "CreateTask"            -> <<"create", "task">>
      [] a = "ClaimTask"             -> <<"claim", "task">>
      [] a = "CompleteTask"          -> <<"complete", "task">>
      [] a = "CancelTask"            -> <<"cancel", "task">>
      [] a = "ListOpenTasks"         -> <<"list", "open", "tasks">>
      [] a = "GetTaskStatus"         -> <<"get", "task", "status">>
      [] a = "GetBalance"            -> <<"get", "balance">>
      [] a = "GetAddress"            -> <<"get", "address">>
      [] a = "GetProtocolState"      -> <<"get", "protocol", "state">>
      [] a = "CodeFix"               -> <<"code", "fix">>
      [] a = "CodeReview"            -> <<"code", "review">>
      [] a = "CodeGenerate"          -> <<"code", "generate">>
      [] a = "CodeExplain"           -> <<"code", "explain">>
      [] a = "SwapTokens"            -> <<"swap", "tokens">>
      [] a = "GetSwapQuote"          -> <<"get", "swap", "quote">>
      [] a = "GetTokenPrice"         -> <<"get", "token", "price">>
      [] a = "PostTweet"             -> <<"post", "tweet">>
      [] a = "PostThread"            -> <<"post", "thread">>
      [] a = "PostDiscord"           -> <<"post", "discord">>
      [] a = "PostDiscordEmbed"      -> <<"post", "discord", "embed">>
      [] a = "SendEmail"             -> <<"send", "email">>
      [] a = "SendBulkEmail"         -> <<"send", "bulk", "email">>
      [] a = "GenerateImage"         -> <<"generate", "image">>
      [] a = "CreateGist"            -> <<"create", "gist">>
      [] a = "CreateGitHubIssue"     -> <<"create", "git", "hub", "issue">>
      [] a = "AddGitHubComment"      -> <<"add", "git", "hub", "comment">>
      [] a = "TriggerGitHubWorkflow" -> <<"trigger", "git", "hub", "workflow">>
      [] a = "Help"                  -> <<"help">>
      [] a = "Unknown"               -> <<"unknown">>

Word(w, cap) == [w |-> w, cap |-> cap]
Underscore == [w |-> "_", cap |-> FALSE]

\* format!("{:?}", action): the identifier, each word capitalised, no separator.
DebugFormat(a) ==
    [i \in 1..Len(VariantWords(a)) |-> Word(VariantWords(a)[i], TRUE)]

\* str::to_lowercase
to_lowercase(s) == [i \in 1..Len(s) |-> Word(s[i].w, FALSE)]

\* #[serde(rename_all = "snake_case")]: lower-case words joined by "_".
SnakeCase(a) ==
    LET ws == VariantWords(a)
    IN  [i \in 1..(2 * Len(ws) - 1) |->
            IF i % 2 = 1 THEN Word(ws[(i + 1) \div 2], FALSE) ELSE Underscore]

\* A lower-case string literal written as words joined by "_" ("export_key").
SnakeLiteral(ws) ==
    [i \in 1..(2 * Len(ws) - 1) |->
        IF i % 2 = 1 THEN Word(ws[(i + 1) \div 2], FALSE) ELSE Underscore]

\* A lower-case string literal written as words run together ("createtask").
PlainLiteral(ws) == [i \in 1..Len(ws) |-> Word(ws[i], FALSE)]

(***************************************************************************)
(* types.rs: ConfirmationType and PolicyCheck.                             *)
(***************************************************************************)
ConfirmationType == {"None", "Verbal", "Typed", "Hardware"}

PolicyCheck(allowed, requires_confirmation, confirmation_type) ==
    [ kind                  |-> "verdict",
      allowed               |-> allowed,
      requires_confirmation |-> requires_confirmation,
      confirmation_type     |-> confirmation_type ]

\* A call that ends in a panic (arithmetic overflow with overflow checks on)
\* returns no PolicyCheck.
Panicked == [kind |-> "panic"]

(***************************************************************************)
(* policy_gate.rs: PolicyConfig.                                           *)
(***************************************************************************)
PolicyConfig(avs, vmax, art, hfl, large, blocked) ==
    [ allow_voice_only_small |-> avs,
      voice_only_max_sol     |-> vmax,
      always_require_typed   |-> art,
      hardware_for_large     |-> hfl,
      large_threshold_sol    |-> large,
      blocked_actions        |-> blocked ]

\* impl Default for PolicyConfig
DefaultPolicyConfig ==
    PolicyConfig(TRUE, DeciSol, FALSE, TRUE, Sol(HIGH_VALUE_THRESHOLD_SOL),
                 {SnakeLiteral(<<"export", "key">>)})

VARIABLES
    \* --- PolicyGate (policy_gate.rs) ---
    session_spending_lamports,  \* PolicyGate.session_spending_lamports
    hardware_wallet_connected,  \* PolicyGate.hardware_wallet_connected
    config,                     \* PolicyGate.config
    overflow_checks,            \* the build profile: TRUE panics on overflow, FALSE wraps
    gate_call,                  \* the most recent PolicyGate call and what it returned
    recorded_total,             \* history: amounts passed to record_spending since the last reset
    allowed_in_flight,          \* amounts check_policy allowed whose execution has not yet recorded
    \* --- the Tauri orchestrator (src-tauri/src/lib.rs) and what it drives ---
    keypair,                    \* SolanaExecutor.keypair: "None" or "Some"
    swap_keypair,               \* JupiterSwapExecutor.keypair: "None" or "Some"
    balance,                    \* the wallet's lamports on the ledger
    chain_tasks,                \* the ledger's tasks: reward_lamports of task 1, 2, ...
    last_command,               \* history: the most recent command and what it did
    confirmed_spend,            \* history: total of the confirmed spending transactions
    \* --- TransactionSender::send_with_retry (transaction_retry.rs) ---
    sender,                     \* which sender runs the call: sync or async
    retry_config,               \* TransactionSender.config
    pc,                         \* where the call is: "idle", "loop" or "returned"
    attempt,                    \* the loop variable of send_with_retry
    last_error,                 \* the local last_error
    rpc_log,                    \* history: the send_transaction calls and sleeps of the call
    send_result,                \* what the call returned
    \* --- calls of the pure functions ---
    fn_call,                    \* the most recent call: function, arguments, result
    \* --- send_and_confirm_with_retry and poll_confirmation ---
    entry,                      \* the method the caller called
    poll_signature,             \* poll_confirmation's argument
    poll_attempt,               \* the loop variable of poll_confirmation
    confirm_result,             \* what the called method returned
    \* --- AccessGate ---
    tier_cache,                 \* wallet -> CachedTier
    cache_duration_secs,
    clock,                      \* chrono::Utc::now().timestamp()
    calls,                      \* task -> the check_access call it is in
    calls_begun,                \* how many check_access calls were made
    last_return,                \* the most recent return of a check_access call
    \* --- the keypair locks ---
    ops,                        \* task -> the operation it is in, where, guards held
    \* --- JupiterSwapExecutor::execute_swap and the ledger ---
    blockhash_pass,             \* blockhash_attempt, the pass of the blockhash loop
    ledger_accepted,            \* the passes whose signed transaction the ledger accepted
    swap_return                 \* where execute_swap is, and what it returned

gateVars == << session_spending_lamports, hardware_wallet_connected, config,
               overflow_checks, gate_call, recorded_total, allowed_in_flight >>

orchVars == << keypair, swap_keypair, balance, chain_tasks, last_command,
               confirmed_spend >>

retryVars == << sender, retry_config, pc, attempt, last_error, rpc_log, send_result >>

confirmVars == << entry, poll_signature, poll_attempt, confirm_result >>

accessVars == << tier_cache, cache_duration_secs, clock, calls, calls_begun, last_return >>

lockVars == << ops >>

swapVars == << blockhash_pass, ledger_accepted, swap_return >>

serviceVars == << accessVars, lockVars, swapVars >>

restVars == << fn_call, confirmVars, serviceVars >>

vars == << gateVars, orchVars, retryVars, restVars >>


(***************************************************************************)
(* JSON values and the params object of a VoiceIntent (serde_json::Value). *)
(* params is a function from the field names present to values; a value is *)
(* a number or something that is not a number.  An f64 amount of x SOL is  *)
(* modelled by the integer x * UnitsPerSol, so "lamports as f64 / 1e9"     *)
(* and "sol * 1e9" change the reading of the number, not the number.       *)
(***************************************************************************)
Num(n) == [num |-> TRUE, v |-> n]
NotANumber == [num |-> FALSE, v |-> 0]

\* params.get(field).and_then(|v| v.as_f64()) is Some
HasF64(params, f) == f \in DOMAIN params /\ params[f].num
\* params.get(field).and_then(|v| v.as_u64()) is Some: a non-negative integer of 64 bits
HasU64(params, f) ==
    f \in DOMAIN params /\ params[f].num /\ params[f].v >= 0 /\ params[f].v <= U64_MAX

\* `x as u64` for an f64 x: saturating at both ends of the u64 range.
F64AsU64(x) == IF x < 0 THEN 0 ELSE IF x > U64_MAX THEN U64_MAX ELSE x

\* u64 addition as the build compiles it: wrapping (overflow checks off).
WrappingAdd(a, b) == (a + b) % (U64_MAX + 1)
AddOverflows(a, b) == a + b > U64_MAX

(***************************************************************************)
(* policy_gate.rs: PolicyGate.                                             *)
(***************************************************************************)
\* fn extract_sol_amount(&self, params) -> f64
extract_sol_amount(params) ==
    IF HasF64(params, "reward_sol") THEN params["reward_sol"].v
    ELSE IF HasF64(params, "amount_sol") THEN params["amount_sol"].v
    ELSE IF HasU64(params, "lamports") THEN params["lamports"].v
    ELSE 0

\* The u64 number of lamports check_spending_action adds to the session total.
amount_lamports(intent) == F64AsU64(extract_sol_amount(intent.params))

\* A variant of the confirmation rules: an amount equal to the voice-only
\* maximum is no longer small.
spending_confirmation_strict(amount_sol) ==
    IF amount_sol < config.voice_only_max_sol /\ config.allow_voice_only_small
    THEN PolicyCheck(TRUE, TRUE, "Verbal")
    ELSE IF amount_sol > config.large_threshold_sol /\ config.hardware_for_large
    THEN IF hardware_wallet_connected
         THEN PolicyCheck(TRUE, TRUE, "Hardware")
         ELSE PolicyCheck(TRUE, TRUE, "Typed")
    ELSE PolicyCheck(TRUE, TRUE,
                     IF config.always_require_typed THEN "Typed" ELSE "Verbal")

\* The confirmation rules of check_spending_action, after the session check.
spending_confirmation(amount_sol) ==
    IF amount_sol <= config.voice_only_max_sol /\ config.allow_voice_only_small
    THEN PolicyCheck(TRUE, TRUE, "Verbal")
    ELSE IF amount_sol > config.large_threshold_sol /\ config.hardware_for_large
    THEN IF hardware_wallet_connected
         THEN PolicyCheck(TRUE, TRUE, "Hardware")
         ELSE PolicyCheck(TRUE, TRUE, "Typed")
    ELSE PolicyCheck(TRUE, TRUE,
                     IF config.always_require_typed THEN "Typed" ELSE "Verbal")

\* The session check of check_spending_action: over the ceiling, no hardware.
session_limit_exceeded(new_session_total) ==
    new_session_total > Sol(SESSION_LIMIT_SOL) /\ ~hardware_wallet_connected

\* fn check_spending_action(&self, intent, action_name) -> PolicyCheck
check_spending_action(intent) ==
    LET amount_sol == extract_sol_amount(intent.params)
        added == F64AsU64(amount_sol)
        new_session_total == WrappingAdd(session_spending_lamports, added)
    IN  IF overflow_checks /\ AddOverflows(session_spending_lamports, added)
        THEN Panicked
        ELSE IF session_limit_exceeded(new_session_total)
        THEN PolicyCheck(FALSE, TRUE, "Hardware")
        ELSE spending_confirmation(amount_sol)

\* The name check_policy looks up in config.blocked_actions.
blocked_name(action) == to_lowercase(DebugFormat(action))

\* A variant of the read-only arm that takes CancelTask in as well.
ReadOnlyActionsAndCancel ==
    { "ListOpenTasks", "GetTaskStatus", "GetBalance", "GetAddress",
      "GetProtocolState", "Help", "Unknown", "CancelTask" }

\* The first arm of the match of check_policy.
ReadOnlyActions ==
    { "ListOpenTasks", "GetTaskStatus", "GetBalance", "GetAddress",
      "GetProtocolState", "Help", "Unknown" }
SpendingActions == {"CreateTask", "SwapTokens"}

\* The match of check_policy on intent.action.
check_action(intent) ==
    LET a == intent.action
    IN  CASE a \in ReadOnlyActions -> PolicyCheck(TRUE, FALSE, "None")
          [] a = "CreateTask"   -> check_spending_action(intent)
          [] a = "ClaimTask"    -> PolicyCheck(TRUE, TRUE, "Verbal")
          [] a = "CompleteTask" -> PolicyCheck(TRUE, TRUE, "Verbal")
          [] a = "CancelTask"   -> PolicyCheck(TRUE, TRUE, "Typed")
          [] a \in {"CodeFix", "CodeReview", "CodeGenerate", "CodeExplain"}
                                -> PolicyCheck(TRUE, FALSE, "None")
          [] a \in {"GetSwapQuote", "GetTokenPrice"}
                                -> PolicyCheck(TRUE, FALSE, "None")
          [] a = "SwapTokens"   -> check_spending_action(intent)
          [] a \in {"PostTweet", "PostThread"} -> PolicyCheck(TRUE, TRUE, "Verbal")
          [] a \in {"PostDiscord", "PostDiscordEmbed"}
                                -> PolicyCheck(TRUE, TRUE, "Verbal")
          [] a = "SendEmail"     -> PolicyCheck(TRUE, TRUE, "Verbal")
          [] a = "SendBulkEmail" -> PolicyCheck(TRUE, TRUE, "Typed")
          [] a = "GenerateImage" -> PolicyCheck(TRUE, FALSE, "None")
          [] a \in {"CreateGist", "CreateGitHubIssue", "AddGitHubComment",
                    "TriggerGitHubWorkflow"}
                                -> PolicyCheck(TRUE, TRUE, "Verbal")

\* pub fn check_policy(&self, intent) -> PolicyCheck
check_policy(intent) ==
    IF blocked_name(intent.action) \in config.blocked_actions
    THEN PolicyCheck(FALSE, FALSE, "None")
    ELSE check_action(intent)

VoiceIntent(action, params) == [action |-> action, params |-> params]


(***************************************************************************)
(* Inputs the PolicyGate specifications draw from.                         *)
(***************************************************************************)
\* Session totals around the ceiling and at the ends of the word.
SessionSamples == {0, 1, Sol(9), Sol(10) - 1, Sol(10), U64_MAX}

\* SOL amounts (in model units): negative, zero, around the voice-only
\* maximum and the large threshold, the ceiling, and beyond the u64 range.
AmountSamples ==
    { -1, 0, DeciSol, DeciSol + 1, Sol(1), Sol(1) + 1, Sol(2), Sol(10),
      U64_MAX, U64_MAX + 1 }

EmptyParams == [f \in {} |-> Num(0)]

ParamsSamples ==
    {EmptyParams}
    \cup {("reward_sol" :> Num(a)) : a \in AmountSamples}
    \cup {("amount_sol" :> Num(a)) : a \in AmountSamples}
    \cup {("lamports" :> Num(a)) : a \in {-1, DeciSol, Sol(2), U64_MAX}}
    \cup { ("reward_sol" :> Num(DeciSol)) @@ ("amount_sol" :> Num(Sol(2))),
           ("reward_sol" :> NotANumber) @@ ("amount_sol" :> Num(Sol(2))),
           ("amount_sol" :> Num(Sol(2))) @@ ("lamports" :> Num(DeciSol)),
           ("amount_sol" :> NotANumber) @@ ("lamports" :> Num(Sol(2))),
           ("amount" :> Num(Sol(2))) }

\* Params for the actions whose verdict does not read them.
FewParams ==
    { EmptyParams, ("reward_sol" :> Num(Sol(2))), ("amount_sol" :> Num(U64_MAX)),
      ("task_id" :> NotANumber) }

Intents ==
    {VoiceIntent(a, p) : a \in SpendingActions, p \in ParamsSamples}
    \cup {VoiceIntent(a, p) : a \in IntentAction \ SpendingActions, p \in FewParams}

\* blocked_actions lists: the default; entries spelt like the default
\* ("create_task"); entries spelt as check_policy spells them ("createtask").
BlockedSamples ==
    { {SnakeLiteral(<<"export", "key">>)},
      { SnakeLiteral(<<"export", "key">>), SnakeLiteral(<<"create", "task">>),
        SnakeLiteral(<<"cancel", "task">>), SnakeLiteral(<<"help">>) },
      { PlainLiteral(<<"swap", "tokens">>), PlainLiteral(<<"get", "balance">>),
        PlainLiteral(<<"claim", "task">>) } }

VoiceMaxSamples == {0, DeciSol, Sol(2)}

Configs ==
    { PolicyConfig(avs, vmax, art, hfl, Sol(HIGH_VALUE_THRESHOLD_SOL), bl) :
        avs \in BOOLEAN, vmax \in VoiceMaxSamples, art \in BOOLEAN,
        hfl \in BOOLEAN, bl \in BlockedSamples }

(***************************************************************************)
(* PolicyGate operations as actions.  gate_call is the most recent call    *)
(* and its return value.                                                   *)
(***************************************************************************)
\* pub fn check_policy(&self, intent): reads the gate, changes nothing.
\* The spending intents a caller may hold between the verdict and the end
\* of the execution, at most.
MaxInFlight == 2

\* The caller of check_policy goes on to execute a spending intent that was
\* allowed; the execution ends with record_spending of the checked amount.
after_check(intent, verdict) ==
    IF /\ verdict.kind = "verdict" /\ verdict.allowed
       /\ intent.action \in SpendingActions
       /\ Len(allowed_in_flight) < MaxInFlight
    THEN Append(allowed_in_flight, amount_lamports(intent))
    ELSE allowed_in_flight

\* The executions in flight without the first one of `lamports`, if any.
RECURSIVE recorded_in_flight(_, _)
recorded_in_flight(in_flight, lamports) ==
    IF in_flight = << >> THEN << >>
    ELSE IF Head(in_flight) = lamports THEN Tail(in_flight)
    ELSE << Head(in_flight) >> \o recorded_in_flight(Tail(in_flight), lamports)

CheckPolicy(intent) ==
    /\ gate_call' = [op |-> "check_policy", intent |-> intent,
                     result |-> check_policy(intent)]
    /\ allowed_in_flight' = after_check(intent, check_policy(intent))
    /\ UNCHANGED << session_spending_lamports, hardware_wallet_connected,
                    config, overflow_checks, recorded_total >>
    /\ UNCHANGED << orchVars, retryVars, restVars >>

\* The length of the record_spending history the model follows.
RecordedTotalCap == 2 * (U64_MAX + 1)

\* pub fn record_spending(&mut self, lamports: u64): self.session += lamports.
\* The value of the field afterwards; with overflow checks the addition
\* panics before the field is assigned.
record_spending(lamports) ==
    IF overflow_checks /\ AddOverflows(session_spending_lamports, lamports)
    THEN Panicked
    ELSE [kind |-> "unit",
          session_spending_lamports |->
              WrappingAdd(session_spending_lamports, lamports)]

RecordSpending(lamports) ==
    /\ recorded_total + lamports <= RecordedTotalCap
    /\ LET r == record_spending(lamports)
       IN  IF r.kind = "panic"
           THEN /\ gate_call' = [op |-> "record_spending", lamports |-> lamports,
                                 result |-> Panicked]
                /\ UNCHANGED << session_spending_lamports, recorded_total >>
           ELSE /\ session_spending_lamports' = r.session_spending_lamports
                /\ recorded_total' = recorded_total + lamports
                /\ gate_call' = [op |-> "record_spending", lamports |-> lamports,
                                 result |-> [kind |-> "unit"]]
    /\ allowed_in_flight' = recorded_in_flight(allowed_in_flight, lamports)
    /\ UNCHANGED << hardware_wallet_connected, config, overflow_checks >>
    /\ UNCHANGED << orchVars, retryVars, restVars >>

\* pub fn reset_session(&mut self)
ResetSession ==
    /\ session_spending_lamports' = 0
    /\ recorded_total' = 0
    /\ gate_call' = [op |-> "reset_session"]
    /\ UNCHANGED << hardware_wallet_connected, config, overflow_checks, allowed_in_flight >>
    /\ UNCHANGED << orchVars, retryVars, restVars >>

\* pub fn set_hardware_wallet(&mut self, connected: bool)
SetHardwareWallet(connected) ==
    /\ hardware_wallet_connected' = connected
    /\ gate_call' = [op |-> "set_hardware_wallet", connected |-> connected]
    /\ UNCHANGED << session_spending_lamports, config, overflow_checks,
                    recorded_total, allowed_in_flight >>
    /\ UNCHANGED << orchVars, retryVars, restVars >>

\* pub fn update_config(&mut self, config: PolicyConfig)
UpdateConfig(c) ==
    /\ config' = c
    /\ gate_call' = [op |-> "update_config"]
    /\ UNCHANGED << session_spending_lamports, hardware_wallet_connected,
                    overflow_checks, recorded_total, allowed_in_flight >>
    /\ UNCHANGED << orchVars, retryVars, restVars >>


(***************************************************************************)
(* transaction_retry.rs: error texts, RetryConfig, SendResult.             *)
(* A text is a sequence of pieces; a piece is a phrase and whether it is   *)
(* written with capital letters.  The pieces are cut so that each phrase   *)
(* classify_error searches for is a piece of its own.  Delays are in units *)
(* of 100 ms and are u64 values of the model's word width.                 *)
(***************************************************************************)
\* str::contains on a lowercased text
contains(lower, phrase) == \E i \in 1..Len(lower) : lower[i] = Word(phrase, FALSE)

ErrorKind == {"Retryable", "Permanent", "BlockhashExpired", "RateLimited"}

\* A variant of classify_error that looks for the permanent phrases first
\* and for the others in the text as written.
classify_error_permanent_first(error) ==
    IF \/ contains(to_lowercase(error), "insufficient funds")
       \/ contains(to_lowercase(error), "simulation failed")
    THEN "Permanent"
    ELSE IF contains(error, "blockhash") \/ contains(error, "block height exceeded")
    THEN "BlockhashExpired"
    ELSE IF contains(error, "rate limit") \/ contains(error, "429")
    THEN "RateLimited"
    ELSE "Retryable"

\* pub fn classify_error(error: &str) -> ErrorKind
classify_error(error) ==
    LET lower == to_lowercase(error)
    IN  IF \/ contains(lower, "blockhash")
           \/ contains(lower, "block height exceeded")
           \/ contains(lower, "transaction has already been processed")
        THEN "BlockhashExpired"
        ELSE IF \/ contains(lower, "rate limit")
                \/ contains(lower, "too many requests")
                \/ contains(lower, "429")
        THEN "RateLimited"
        ELSE IF \/ contains(lower, "insufficient funds")
                \/ contains(lower, "insufficient lamports")
                \/ contains(lower, "invalid signature")
                \/ contains(lower, "invalid account")
                \/ contains(lower, "account not found")
                \/ contains(lower, "program failed")
                \/ contains(lower, "custom program error")
                \/ contains(lower, "simulation failed")
        THEN "Permanent"
        ELSE IF \/ contains(lower, "connection")
                \/ contains(lower, "timeout")
                \/ contains(lower, "network")
                \/ contains(lower, "temporary")
                \/ contains(lower, "try again")
        THEN "Retryable"
        ELSE "Retryable"

\* pub struct RetryConfig
RetryConfig(sends, confirms, base_ms, max_ms, poll_ms, jitter) ==
    [ max_send_retries    |-> sends,
      max_confirm_retries |-> confirms,
      base_delay_ms       |-> base_ms,
      max_delay_ms        |-> max_ms,
      poll_interval_ms    |-> poll_ms,
      jitter              |-> jitter ]

\* impl Default for RetryConfig: 5, 30, 500 ms, 10000 ms, 1000 ms, true
DefaultRetryConfig == RetryConfig(5, 30, 5, 100, 10, TRUE)

\* pub enum SendResult
Confirmed(signature) == [kind |-> "Confirmed", signature |-> signature]
PermanentFailure(message) == [kind |-> "PermanentFailure", message |-> message]
RetryableFailure(message) == [kind |-> "RetryableFailure", message |-> message]
ConfirmationTimeout(signature) ==
    [kind |-> "ConfirmationTimeout", signature |-> signature]

\* u64::saturating_pow(2, e) and u64::saturating_mul.  The source caps the
\* exponent at 63, the greatest e with 2^e inside a u64: WordBits - 1 here.
SaturatingPow2(e) == IF e >= WordBits THEN U64_MAX ELSE Pow2(e)
SaturatingMul(a, b) == IF a * b > U64_MAX THEN U64_MAX ELSE a * b
Min(a, b) == IF a <= b THEN a ELSE b

\* fn rand_simple() -> f64 is (nanos % 1000) / 1000; the model carries
\* nanos % 1000: the least and the greatest value.
rand_simple == {0, 999}

\* pub fn calculate_delay(attempt: u32, config: &RetryConfig) -> Duration,
\* with rand_simple() = thousandths / 1000
calculate_delay(attempt_no, cfg, thousandths) ==
    LET multiplier   == SaturatingPow2(Min(attempt_no, WordBits - 1))
        base_delay   == SaturatingMul(cfg.base_delay_ms, multiplier)
        capped_delay == Min(base_delay, cfg.max_delay_ms)
    IN  IF cfg.jitter
        THEN F64AsU64((capped_delay * (2000 + thousandths)) \div 2000)
        ELSE capped_delay

(***************************************************************************)
(* The parts of the state a specification does not drive stay as they are  *)
(* before the application has done anything.                               *)
(***************************************************************************)
NoResult == [kind |-> "none"]

\* What SolanaExecutor::execute_intent (or the swap executor) hands back and
\* what became of the transaction it sent, if any:
\*   ret: "Ok" (an ExecutionResult), "Err" (an anyhow error), "Panic";
\*   success: ExecutionResult.success;
\*   reward_lamports: the field of that name in ExecutionResult.data, NoData without;
\*   tx: "none" (nothing sent), "rejected" (sent, not accepted by the ledger),
\*       "confirmed" (accepted, and the client saw it confirmed),
\*       "unconfirmed" (accepted, but the client got an error);
\*   lamports: the reward the transaction moves.
NoData == -1
ExecResult(ret, success, reward_lamports, tx, lamports) ==
    [ ret |-> ret, success |-> success, reward_lamports |-> reward_lamports,
      tx |-> tx, lamports |-> lamports ]
NotRun == ExecResult("None", FALSE, NoData, "none", 0)

\* One command of the orchestrator, as the history keeps it: the intent, the
\* verdict check_policy gives for it in the state the command ran in, how
\* the command ended, and the executor's result.
Command(command, intent, verdict, outcome, result) ==
    [ command |-> command, intent |-> intent, verdict |-> verdict,
      outcome |-> outcome, result |-> result ]
NoCommand ==
    Command("none", VoiceIntent("Unknown", EmptyParams),
            PolicyCheck(TRUE, FALSE, "None"), "none", NotRun)

OrchIdle ==
    /\ keypair = "None"
    /\ swap_keypair = "None"
    /\ balance = 0
    /\ chain_tasks = << >>
    /\ last_command = NoCommand
    /\ confirmed_spend = 0

ConfirmIdle ==
    /\ entry = "none"
    /\ poll_signature = ""
    /\ poll_attempt = 0
    /\ confirm_result = NoResult

\* struct CachedTier
CachedTier(tier, tokens, cached_at) ==
    [present |-> TRUE, tier |-> tier, balance |-> tokens, cached_at |-> cached_at]
NoEntry == [present |-> FALSE, tier |-> "None", balance |-> 0, cached_at |-> 0]

Tasks == {1, 2}

\* A task's call of check_access: where it is, its argument and locals.
NoCall == [pc |-> "idle", wallet |-> "", now |-> 0, balance |-> 0, invalidated |-> FALSE]

\* A return of check_access: the task and its argument, whether the oracle
\* was asked, the key the write evicted (oldest_key), and Ok((tier, balance)).
Return(t, wallet, queried, oldest, tier, tokens) ==
    [ task |-> t, wallet |-> wallet, queried |-> queried, oldest_key |-> oldest,
      tier |-> tier, balance |-> tokens ]
NoReturn == Return(0, "", FALSE, "", "None", 0)

\* The time to live of an entry, in the time unit of the clock.
DEFAULT_CACHE_DURATION_SECS == 2

AccessIdle ==
    /\ tier_cache = [h \in {} |-> NoEntry]
    /\ cache_duration_secs = DEFAULT_CACHE_DURATION_SECS
    /\ clock = 0
    /\ calls = [t \in Tasks |-> NoCall]
    /\ calls_begun = 0
    /\ last_return = NoReturn

\* A task in no operation.
NoOp == [op |-> "none", pc |-> 0, held |-> {}]

LockIdle ==
    /\ ops = [t \in Tasks |-> NoOp]

\* execute_swap not called: no pass, nothing on the ledger.
SwapNotCalled == [ret |-> "Idle", value |-> "", error |-> << >>]
SwapIdle ==
    /\ blockhash_pass = 0
    /\ ledger_accepted = {}
    /\ swap_return = SwapNotCalled

RestIdle ==
    /\ fn_call = [fn |-> "none"]
    /\ ConfirmIdle
    /\ AccessIdle
    /\ LockIdle
    /\ SwapIdle

RetryIdle ==
    /\ sender = "TransactionSender"
    /\ retry_config = DefaultRetryConfig
    /\ pc = "idle"
    /\ attempt = 0
    /\ last_error = << >>
    /\ rpc_log = << >>
    /\ send_result = NoResult

(***************************************************************************)
(* SpecCheck: check_policy as a function of the gate's state and the       *)
(* intent.  The gate starts in any state its constructors and mutators can *)
(* leave it in; the one step of a behaviour is a check_policy call (the    *)
(* call changes nothing, so a second call adds no case).                   *)
(***************************************************************************)
InitCheck ==
    /\ session_spending_lamports \in SessionSamples
    /\ hardware_wallet_connected \in BOOLEAN
    /\ config \in Configs
    /\ overflow_checks \in BOOLEAN
    /\ gate_call = [op |-> "new"]
    /\ recorded_total = session_spending_lamports
    /\ allowed_in_flight = << >>
    /\ OrchIdle
    /\ RetryIdle
    /\ RestIdle

NextCheck ==
    /\ gate_call.op = "new"
    /\ \E intent \in Intents : CheckPolicy(intent)

SpecCheck == InitCheck /\ [][NextCheck]_vars

(***************************************************************************)
(* SpecGate: a PolicyGate driven through its public API.                   *)
(***************************************************************************)
\* test_custom_config's PolicyConfig
CustomPolicyConfig == PolicyConfig(FALSE, 0, TRUE, FALSE, Sol(10), {})

GateConfigs == {DefaultPolicyConfig, CustomPolicyConfig}

\* 0.5 SOL, 1.5 SOL, 9 SOL (the amounts of the unit tests), one unit, the largest u64.
RecordSamples == {0, 1, 5 * DeciSol, 15 * DeciSol, Sol(9), U64_MAX}

GateIntents ==
    { VoiceIntent("CreateTask", ("reward_sol" :> Num(Sol(2)))),
      VoiceIntent("GetBalance", EmptyParams) }

\* PolicyGate::new() / PolicyGate::with_config(config)
InitGate ==
    /\ session_spending_lamports = 0
    /\ hardware_wallet_connected = FALSE
    /\ config \in GateConfigs
    /\ overflow_checks \in BOOLEAN
    /\ gate_call = [op |-> "new"]
    /\ recorded_total = 0
    /\ allowed_in_flight = << >>
    /\ OrchIdle
    /\ RetryIdle
    /\ RestIdle

NextGate ==
    \/ \E intent \in GateIntents : CheckPolicy(intent)
    \/ \E lamports \in RecordSamples : RecordSpending(lamports)
    \/ ResetSession
    \/ \E connected \in BOOLEAN : SetHardwareWallet(connected)
    \/ \E c \in GateConfigs : UpdateConfig(c)

SpecGate == InitGate /\ [][NextGate]_vars

(***************************************************************************)
(* SpecSession: a PolicyGate without hardware wallet whose callers record  *)
(* spending only for intents check_policy allowed, with the amount that    *)
(* was checked: lib.rs checks under one lock acquisition (execute_intent)  *)
(* and records under another, after the execution (execute_confirmed).     *)
(***************************************************************************)
SessionIntents ==
    { VoiceIntent("CreateTask", ("reward_sol" :> Num(Sol(a)))) : a \in {1, 4, 6} }
    \cup { VoiceIntent("GetBalance", EmptyParams) }

InitSession ==
    /\ session_spending_lamports = 0
    /\ hardware_wallet_connected = FALSE
    /\ config \in GateConfigs
    /\ overflow_checks \in BOOLEAN
    /\ gate_call = [op |-> "new"]
    /\ recorded_total = 0
    /\ allowed_in_flight = << >>
    /\ OrchIdle
    /\ RetryIdle
    /\ RestIdle

\* The end of an execution in flight: pol.record_spending(lamports) with
\* the amount that was checked.
RecordChecked(lamports) ==
    /\ \E i \in 1 .. Len(allowed_in_flight) : allowed_in_flight[i] = lamports
    /\ RecordSpending(lamports)

NextSession ==
    \/ \E intent \in SessionIntents : CheckPolicy(intent)
    \/ \E intent \in SessionIntents : RecordChecked(amount_lamports(intent))
    \/ \E c \in GateConfigs : UpdateConfig(c)

SpecSession == InitSession /\ [][NextSession]_vars

(***************************************************************************)
(* SpecSend: one call of send_with_retry (TransactionSender and            *)
(* AsyncTransactionSender run the same loop; the async one awaits its      *)
(* sleeps).  The RPC node answers each send_transaction as it likes.       *)
(* rpc_log lists, in order, the send_transaction calls with their answers  *)
(* and the sleeps.                                                         *)
(***************************************************************************)
\* The most retries a sampled configuration allows, besides the default's.
MaxSendRetries == 3

RetryConfigs ==
    { DefaultRetryConfig,
      RetryConfig(MaxSendRetries, 30, 5, 100, 10, FALSE),
      RetryConfig(1, 30, 5, 100, 10, TRUE),
      RetryConfig(0, 30, 5, 100, 10, FALSE) }

Senders == {"TransactionSender", "AsyncTransactionSender"}

\* What rpc.send_transaction(tx) answers: a signature, or an error text.
RpcOk(signature) == [ok |-> TRUE, signature |-> signature, error |-> << >>]
RpcErr(error) == [ok |-> FALSE, signature |-> "", error |-> error]

ErrorSamples ==
    { << Word("connection", TRUE), Word("refused", FALSE) >>,
      << Word("node is behind", FALSE) >>,
      << Word("too many requests", TRUE) >>,
      << Word("insufficient funds", FALSE), Word("for fee", FALSE) >>,
      << Word("simulation failed", TRUE), Word("custom program error", FALSE) >>,
      << Word("blockhash", TRUE), Word("not found", FALSE) >>,
      << Word("transaction has already been processed", FALSE) >>,
      << Word("simulation failed", FALSE), Word("blockhash", FALSE),
         Word("not found", FALSE) >> }

RpcAnswers == {RpcOk("sig")} \cup {RpcErr(e) : e \in ErrorSamples}

SendEvent(answer) == [ev |-> "send", answer |-> answer, ms |-> 0, status |-> "none"]
SleepEvent(ms) == [ev |-> "sleep", answer |-> RpcOk(""), ms |-> ms, status |-> "none"]

\* "Blockhash expired - refresh required"
BlockhashRefreshMessage ==
    << Word("blockhash", TRUE), Word("expired -", FALSE),
       Word("refresh required", FALSE) >>

\* format!("Max retries ({}) exceeded. Last error: {}", max_send_retries, last_error)
MaxRetriesMessage(max_send_retries, error) ==
    << Word("max retries (", TRUE), Word(ToString(max_send_retries), FALSE),
       Word(") exceeded.", FALSE), Word("last error:", TRUE) >> \o error

\* A variant of the match on error_kind that retries whatever the kind.
on_send_error_retry_all(error_kind, error_str, cfg) ==
    IF error_kind = "RateLimited"
    THEN [returns |-> NoResult, sleeps |-> << SleepEvent(cfg.max_delay_ms) >>]
    ELSE [returns |-> NoResult, sleeps |-> << >>]

\* A variant of the match on error_kind without the rate-limit sleep.
on_send_error_no_rate_sleep(error_kind, error_str, cfg) ==
    CASE error_kind = "Permanent" ->
            [returns |-> PermanentFailure(error_str), sleeps |-> << >>]
      [] error_kind = "BlockhashExpired" ->
            [returns |-> RetryableFailure(BlockhashRefreshMessage), sleeps |-> << >>]
      [] OTHER ->
            [returns |-> NoResult, sleeps |-> << >>]

\* The match on error_kind in the Err arm of the loop body: what the call
\* returns (NoResult: it goes on) and the sleep it makes first.
on_send_error(error_kind, error_str, cfg) ==
    CASE error_kind = "Permanent" ->
            [returns |-> PermanentFailure(error_str), sleeps |-> << >>]
      [] error_kind = "BlockhashExpired" ->
            [returns |-> RetryableFailure(BlockhashRefreshMessage), sleeps |-> << >>]
      [] error_kind = "RateLimited" ->
            [returns |-> NoResult, sleeps |-> << SleepEvent(cfg.max_delay_ms) >>]
      [] error_kind = "Retryable" ->
            [returns |-> NoResult, sleeps |-> << >>]

\* A variant of the loop range that is inclusive: 0..=max_send_retries.
in_send_loop_inclusive(attempt_no, cfg) == attempt_no <= cfg.max_send_retries

\* for attempt in 0..self.config.max_send_retries
in_send_loop(attempt_no, cfg) == attempt_no < cfg.max_send_retries

\* A call of send_with_retry begins: let mut last_error = String::new()
SendWithRetry(sender_type, cfg) ==
    /\ pc = "idle"
    /\ sender' = sender_type
    /\ retry_config' = cfg
    /\ pc' = "loop"
    /\ attempt' = 0
    /\ last_error' = << >>
    /\ rpc_log' = << >>
    /\ send_result' = NoResult
    /\ UNCHANGED << gateVars, orchVars, restVars >>

\* One pass through the loop body: the back-off sleep, the send, the match
\* on its answer.
SendAttempt(answer, thousandths) ==
    /\ pc = "loop"
    /\ in_send_loop(attempt, retry_config)
    /\ LET backoff == IF attempt > 0
                      THEN << SleepEvent(calculate_delay(attempt - 1, retry_config,
                                                         thousandths)) >>
                      ELSE << >>
           sent == rpc_log \o backoff \o << SendEvent(answer) >>
       IN  IF answer.ok
           THEN /\ send_result' = Confirmed(answer.signature)
                /\ pc' = "returned"
                /\ rpc_log' = sent
                /\ UNCHANGED << attempt, last_error >>
           ELSE LET error_str == answer.error
                    step == on_send_error(classify_error(error_str), error_str,
                                          retry_config)
                IN  /\ rpc_log' = sent \o step.sleeps
                    /\ IF step.returns.kind # "none"
                       THEN /\ send_result' = step.returns
                            /\ pc' = "returned"
                            /\ UNCHANGED << attempt, last_error >>
                       ELSE /\ last_error' = error_str
                            /\ attempt' = attempt + 1
                            /\ UNCHANGED << pc, send_result >>
    /\ UNCHANGED << sender, retry_config, gateVars, orchVars, restVars >>

\* The loop is over: Ok(SendResult::RetryableFailure("Max retries ..."))
MaxRetriesExceeded ==
    /\ pc = "loop"
    /\ ~in_send_loop(attempt, retry_config)
    /\ send_result' = RetryableFailure(
           MaxRetriesMessage(retry_config.max_send_retries, last_error))
    /\ pc' = "returned"
    /\ UNCHANGED << sender, retry_config, attempt, last_error, rpc_log,
                    gateVars, orchVars, restVars >>

GateIdle ==
    /\ session_spending_lamports = 0
    /\ hardware_wallet_connected = FALSE
    /\ config = DefaultPolicyConfig
    /\ overflow_checks = FALSE
    /\ gate_call = [op |-> "new"]
    /\ recorded_total = 0
    /\ allowed_in_flight = << >>

InitSend ==
    /\ GateIdle
    /\ OrchIdle
    /\ RetryIdle
    /\ RestIdle

NextSend ==
    \/ \E sender_type \in Senders, cfg \in RetryConfigs :
           SendWithRetry(sender_type, cfg)
    \/ \E answer \in RpcAnswers, thousandths \in rand_simple :
           SendAttempt(answer, thousandths)
    \/ MaxRetriesExceeded

\* The thread (or task) running the call is scheduled, sleeps end and the
\* RPC client answers or times out: the call always takes its next step.
SpecSend == InitSend /\ [][NextSend]_vars /\ WF_vars(NextSend)

(***************************************************************************)
(* solana_exec.rs: SolanaExecutor, against a ledger that holds the         *)
(* wallet's balance and the tasks.  Each operator is the set of results    *)
(* the call can have in the current state: the RPC node may fail any       *)
(* request, and a transaction it was sent may be rejected, confirmed, or   *)
(* accepted without the client seeing the confirmation.                    *)
(***************************************************************************)
\* let sol_needed = reward_lamports + 50_000: fees and rent, one model unit
TX_FEE_RESERVE == 1

\* The most tasks the ledger holds.
MaxTasks == 2

\* A JSON string; n is the u64 it parses to, 0 when it is no decimal number.
Str(n) == [num |-> FALSE, v |-> n]

IsString(params, f) == f \in DOMAIN params /\ ~params[f].num

\* serde_json::from_value::<String>(params.get("task_id")...).unwrap_or_default()
\* followed by parse::<u64>()
task_id_of(params) == IF IsString(params, "task_id") THEN params["task_id"].v ELSE 0

ExecErr == ExecResult("Err", FALSE, NoData, "none", 0)
ExecFailed == ExecResult("Ok", FALSE, NoData, "none", 0)
ExecSuccess(reward_lamports) == ExecResult("Ok", TRUE, reward_lamports, "none", 0)

\* rpc_client.send_and_confirm_transaction(&tx) ... .map_err(..)? of a
\* transaction moving `lamports`, then the Ok(ExecutionResult) with `data`.
send_and_confirm_transaction(lamports, data, accepted) ==
    { ExecResult("Err", FALSE, NoData, "rejected", lamports) }
    \cup IF accepted
         THEN { ExecResult("Ok", TRUE, data, "confirmed", lamports),
                ExecResult("Err", FALSE, NoData, "unconfirmed", lamports) }
         ELSE {}

\* async fn create_task(&self, params)
create_task(params) ==
    IF ~(HasF64(params, "reward_sol") /\ IsString(params, "description"))
    THEN {ExecErr}
    ELSE IF keypair = "None"
    THEN {ExecErr}
    ELSE LET reward_lamports == F64AsU64(params["reward_sol"].v)
             sol_needed == WrappingAdd(reward_lamports, TX_FEE_RESERVE)
             funded == balance >= reward_lamports + TX_FEE_RESERVE
         IN  {ExecErr}
             \cup IF overflow_checks /\ AddOverflows(reward_lamports, TX_FEE_RESERVE)
                  THEN {ExecResult("Panic", FALSE, NoData, "none", 0)}
                  ELSE IF balance < sol_needed
                  THEN {ExecFailed}
                  ELSE send_and_confirm_transaction(
                           reward_lamports, reward_lamports,
                           funded /\ Len(chain_tasks) < MaxTasks)

\* async fn claim_task(&self, params) / async fn complete_task(&self, params)
claim_task(params) ==
    IF ~IsString(params, "task_id")
    THEN {ExecErr}
    ELSE IF keypair = "None"
    THEN {ExecErr}
    ELSE IF task_id_of(params) = 0
    THEN {ExecErr}
    ELSE {ExecErr} \cup send_and_confirm_transaction(0, NoData, TRUE)

complete_task(params) == claim_task(params)

\* async fn cancel_task(&self, params): reports success, sends nothing
cancel_task(params) == {ExecSuccess(NoData)}

\* async fn get_task_status(&self, params): data is the task read from the ledger
get_task_status(params) ==
    LET id == task_id_of(params)
    IN  IF id = 0
        THEN {ExecFailed}
        ELSE {ExecErr}
             \cup IF id <= Len(chain_tasks)
                  THEN {ExecSuccess(chain_tasks[id])}
                  ELSE {ExecFailed}

\* pub async fn execute_intent(&self, intent) -> Result<ExecutionResult>
execute_intent(intent) ==
    LET a == intent.action
    IN  CASE a = "CreateTask"    -> create_task(intent.params)
          [] a = "ClaimTask"     -> claim_task(intent.params)
          [] a = "CompleteTask"  -> complete_task(intent.params)
          [] a = "CancelTask"    -> cancel_task(intent.params)
          [] a = "GetTaskStatus" -> get_task_status(intent.params)
          [] a \in {"ListOpenTasks", "GetProtocolState"}
                                 -> {ExecSuccess(NoData)}
          [] a \in {"GetBalance", "GetAddress"}
                                 -> IF keypair = "None" THEN {ExecFailed}
                                    ELSE {ExecErr, ExecSuccess(NoData)}
          [] a = "Help"          -> {ExecSuccess(NoData)}
          [] OTHER               -> {ExecFailed}

\* JupiterSwapExecutor::execute_swap(&self, params) -> Result<String>
execute_swap(lamports) ==
    IF swap_keypair = "None"
    THEN {ExecErr}
    ELSE {ExecErr}
         \cup { ExecResult("Ok", TRUE, NoData, "confirmed", lamports),
                ExecResult("Ok", TRUE, NoData, "unconfirmed", lamports),
                ExecResult("Err", FALSE, NoData, "rejected", lamports),
                ExecResult("Err", FALSE, NoData, "unconfirmed", lamports) }

\* IntentAction::required_feature(&self) is Some(_)
required_feature(a) ==
    a \in { "CodeFix", "CodeReview", "CodeGenerate", "CodeExplain", "CreateGist",
            "CreateGitHubIssue", "AddGitHubComment", "TriggerGitHubWorkflow",
            "SwapTokens", "GetSwapQuote", "GetTokenPrice", "PostTweet",
            "PostThread", "PostDiscord", "PostDiscordEmbed", "SendEmail",
            "SendBulkEmail", "GenerateImage" }

Landed(result) == result.tx \in {"confirmed", "unconfirmed"}

\* What an accepted transaction does to the ledger.
Ledger(intent, result) ==
    IF Landed(result) /\ intent.action \in SpendingActions
    THEN /\ balance' = balance - (result.lamports + TX_FEE_RESERVE)
         /\ chain_tasks' = IF intent.action = "CreateTask"
                           THEN Append(chain_tasks, result.lamports)
                           ELSE chain_tasks
         /\ confirmed_spend' = confirmed_spend
                + IF result.tx = "confirmed" THEN result.lamports ELSE 0
    ELSE UNCHANGED << balance, chain_tasks, confirmed_spend >>

(***************************************************************************)
(* Spec: the application (src-tauri/src/lib.rs).  run() builds the state:  *)
(* PolicyGate::new(), a SolanaExecutor without keypair, a                  *)
(* JupiterSwapExecutor::new(..) whose keypair is None.  The front end then *)
(* invokes the commands in any order and with any arguments.               *)
(***************************************************************************)
\* What the wallet holds when the application starts.
BalanceSamples == {Sol(1), Sol(14)}

\* The SOL the session may have recorded before the model stops following it.
MaxRecordedSol == 15

\* A task of someone else on the ledger, if any.
LedgerSamples == { << >>, << Sol(2) >> }

CreateTaskParams(reward_sol) ==
    ("description" :> Str(0)) @@ ("reward_sol" :> Num(reward_sol))

AppIntents ==
    { VoiceIntent("CreateTask", CreateTaskParams(a)) :
          a \in {Sol(2), Sol(11), U64_MAX} }
    \cup { VoiceIntent("ClaimTask", ("task_id" :> Str(1))),
           VoiceIntent("CompleteTask", ("task_id" :> Str(1))),
           VoiceIntent("CancelTask", ("task_id" :> Str(1))),
           VoiceIntent("GetTaskStatus", ("task_id" :> Str(1))),
           VoiceIntent("GetBalance", EmptyParams),
           VoiceIntent("SwapTokens", ("amount" :> Num(Sol(2)))),
           VoiceIntent("PostTweet", EmptyParams),
           VoiceIntent("GenerateImage", EmptyParams) }

SwapAmounts == {Sol(2)}

\* #[tauri::command] async fn load_wallet: the file holds a keypair, or not
LoadWallet(readable) ==
    /\ keypair' = IF readable THEN "Some" ELSE keypair
    /\ last_command' = Command("load_wallet", VoiceIntent("Unknown", EmptyParams),
                               PolicyCheck(TRUE, FALSE, "None"),
                               IF readable THEN "ok" ELSE "err", NotRun)
    /\ UNCHANGED << swap_keypair, balance, chain_tasks, confirmed_spend >>
    /\ UNCHANGED << gateVars, retryVars, restVars >>

\* The match of execute_intent on intent.action: the executor's results.
route(intent) ==
    LET a == intent.action
    IN  CASE a = "SwapTokens" ->
                 IF HasU64(intent.params, "amount")
                 THEN execute_swap(intent.params["amount"].v)
                 ELSE {ExecFailed}
          [] a \in { "CodeFix", "CodeReview", "CodeGenerate", "CodeExplain",
                     "GetSwapQuote", "GetTokenPrice", "PostTweet", "PostThread",
                     "PostDiscord", "PostDiscordEmbed", "SendEmail",
                     "SendBulkEmail", "GenerateImage", "CreateGist",
                     "CreateGitHubIssue", "AddGitHubComment",
                     "TriggerGitHubWorkflow" } ->
                 {ExecFailed, ExecSuccess(NoData)}
          [] OTHER -> execute_intent(intent)

\* What the access tier gating of execute_intent comes to: the gate is not
\* initialised, get_wallet_pubkey returns None (no keypair, or try_read
\* finds the lock taken), or gate_feature returns Ok or Err.
GateOutcomes == {"NoGate", "NoPubkey", "Ok", "Err"}

\* #[tauri::command] async fn execute_intent
ExecuteIntent(intent, access) ==
    LET policy_check == check_policy(intent)
        Ends(outcome) ==
            /\ last_command' = Command("execute_intent", intent, policy_check,
                                       outcome, NotRun)
            /\ UNCHANGED << balance, chain_tasks, confirmed_spend >>
    IN  /\ IF policy_check.kind = "panic"
           THEN Ends("panic")
           ELSE IF ~policy_check.allowed
           THEN Ends("Policy denied")
           ELSE IF policy_check.requires_confirmation
           THEN Ends("CONFIRM_REQUIRED")
           ELSE IF required_feature(intent.action) /\ access = "Err"
           THEN Ends("Access denied")
           ELSE \E result \in route(intent) :
                    /\ Ledger(intent, result)
                    /\ last_command' = Command("execute_intent", intent,
                                               policy_check, "routed", result)
        /\ access \in {"Ok", "Err"} => keypair = "Some"
        /\ UNCHANGED << keypair, swap_keypair >>
        /\ UNCHANGED << gateVars, retryVars, restVars >>

\* #[tauri::command] async fn execute_confirmed
ExecuteConfirmed(intent) ==
    \E result \in execute_intent(intent) :
        LET records == result.ret = "Ok" /\ result.success
                       /\ result.reward_lamports # NoData
            recorded == IF records THEN record_spending(result.reward_lamports)
                        ELSE NoResult
        IN  /\ records => recorded_total + result.reward_lamports
                               <= Sol(MaxRecordedSol)
            /\ Ledger(intent, result)
            /\ IF recorded.kind = "unit"
               THEN /\ session_spending_lamports' = recorded.session_spending_lamports
                    /\ recorded_total' = recorded_total + result.reward_lamports
               ELSE UNCHANGED << session_spending_lamports, recorded_total >>
            /\ last_command' =
                   Command("execute_confirmed", intent, check_policy(intent),
                           IF recorded.kind = "panic" THEN "panic" ELSE "done",
                           result)
            /\ UNCHANGED << keypair, swap_keypair >>
            /\ UNCHANGED << hardware_wallet_connected, config, overflow_checks,
                            gate_call, allowed_in_flight >>
            /\ UNCHANGED << retryVars, restVars >>

\* #[tauri::command] async fn execute_swap(from_token, to_token, amount, slippage_bps)
ExecuteSwap(amount) ==
    LET intent == VoiceIntent("SwapTokens", ("amount" :> Num(amount)))
    IN  \E result \in execute_swap(amount) :
            /\ Ledger(intent, result)
            /\ last_command' = Command("execute_swap", intent, check_policy(intent),
                                       "done", result)
            /\ UNCHANGED << keypair, swap_keypair >>
            /\ UNCHANGED << gateVars, retryVars, restVars >>

\* #[tauri::command] async fn check_policy
CheckPolicyCommand(intent) ==
    /\ last_command' = Command("check_policy", intent, check_policy(intent),
                               "done", NotRun)
    /\ UNCHANGED << keypair, swap_keypair, balance, chain_tasks, confirmed_spend >>
    /\ UNCHANGED << gateVars, retryVars, restVars >>

\* run(): the state the application manages
Init ==
    /\ session_spending_lamports = 0
    /\ hardware_wallet_connected = FALSE
    /\ config = DefaultPolicyConfig
    /\ overflow_checks \in BOOLEAN
    /\ gate_call = [op |-> "new"]
    /\ recorded_total = 0
    /\ allowed_in_flight = << >>
    /\ keypair = "None"
    /\ swap_keypair = "None"
    /\ balance \in BalanceSamples
    /\ chain_tasks \in LedgerSamples
    /\ last_command = NoCommand
    /\ confirmed_spend = 0
    /\ RetryIdle
    /\ RestIdle

Next ==
    \/ \E readable \in BOOLEAN : LoadWallet(readable)
    \/ \E intent \in AppIntents, access \in GateOutcomes :
           ExecuteIntent(intent, access)
    \/ \E intent \in AppIntents : ExecuteConfirmed(intent)
    \/ \E amount \in SwapAmounts : ExecuteSwap(amount)
    \/ \E intent \in AppIntents : CheckPolicyCommand(intent)

Spec == Init /\ [][Next]_vars

(***************************************************************************)
(* SpecConfirm: one call of send_and_confirm_with_retry, or of             *)
(* poll_confirmation itself (both are public; the async sender runs the    *)
(* same code).  rpc_log goes on to list the get_signature_status calls,    *)
(* each with the signature asked about and the answer.                     *)
(***************************************************************************)
\* The most status queries a sampled configuration allows.
MaxConfirmRetries == 3

ConfirmConfigs ==
    { RetryConfig(sends, confirms, 5, 100, 10, FALSE) :
        sends \in {0, 2}, confirms \in {0, 1, MaxConfirmRetries} }

Signatures == {"sig1", "sig2"}

\* What rpc.get_signature_status(&signature) answers:
\*   Ok(Some(Ok(()))), Ok(Some(Err(e))), Ok(None), Err(e).
StatusAnswers ==
    { [kind |-> "Confirmed", rpc_ok |-> TRUE, error |-> << >>],
      [kind |-> "Failed", rpc_ok |-> TRUE, error |-> << Word("custom program error", FALSE) >>],
      [kind |-> "Unknown", rpc_ok |-> TRUE, error |-> << >>],
      [kind |-> "RpcError", rpc_ok |-> FALSE,
       error |-> << Word("connection", FALSE), Word("refused", FALSE) >>] }

StatusEvent(signature, status) ==
    [ ev |-> "status",
      answer |-> [ok |-> status.rpc_ok, signature |-> signature, error |-> status.error],
      ms |-> 0, status |-> status.kind ]

\* format!("Transaction failed: {}", e)
TransactionFailedMessage(e) == << Word("transaction failed:", TRUE) >> \o e

\* A variant of the match on the status that gives up on an RPC error.
on_status_stop_on_rpc_error(status, signature) ==
    CASE status.kind = "Confirmed" -> Confirmed(signature)
      [] status.kind = "Failed" -> PermanentFailure(TransactionFailedMessage(status.error))
      [] status.kind = "Unknown" -> NoResult
      [] status.kind = "RpcError" -> ConfirmationTimeout(signature)

\* The match on get_signature_status's answer in the loop body: what
\* poll_confirmation returns (NoResult: it goes on polling).
on_status(status, signature) ==
    CASE status.kind = "Confirmed" -> Confirmed(signature)
      [] status.kind = "Failed" -> PermanentFailure(TransactionFailedMessage(status.error))
      [] status.kind = "Unknown" -> NoResult
      [] status.kind = "RpcError" -> NoResult

\* A variant of the match on send_result that polls whatever the send returned.
after_send_poll_always(result) ==
    [polls |-> TRUE, signature |-> IF result.kind = "Confirmed" THEN result.signature ELSE "sig1"]

\* match send_result { Confirmed(signature) => self.poll_confirmation(signature),
\*                     other => Ok(other) }
after_send(result) ==
    IF result.kind = "Confirmed"
    THEN [polls |-> TRUE, signature |-> result.signature]
    ELSE [polls |-> FALSE, signature |-> ""]

\* A call of send_and_confirm_with_retry begins.
SendAndConfirmWithRetry(sender_type, cfg) ==
    /\ pc = "idle"
    /\ entry = "none"
    /\ entry' = "send_and_confirm_with_retry"
    /\ sender' = sender_type
    /\ retry_config' = cfg
    /\ UNCHANGED << pc, attempt, last_error, rpc_log, send_result >>
    /\ UNCHANGED << poll_signature, poll_attempt, confirm_result >>
    /\ UNCHANGED << gateVars, orchVars, fn_call, serviceVars >>

\* The match on send_result, send_with_retry having returned.
MatchSendResult ==
    /\ entry = "send_and_confirm_with_retry"
    /\ pc = "returned"
    /\ LET next == after_send(send_result)
       IN  IF next.polls
           THEN /\ pc' = "poll"
                /\ poll_signature' = next.signature
                /\ poll_attempt' = 0
                /\ UNCHANGED confirm_result
           ELSE /\ pc' = "done"
                /\ confirm_result' = send_result
                /\ UNCHANGED << poll_signature, poll_attempt >>
    /\ UNCHANGED << sender, retry_config, attempt, last_error, rpc_log, send_result >>
    /\ UNCHANGED << entry, gateVars, orchVars, fn_call, serviceVars >>

\* A call of poll_confirmation by a caller that holds a signature.
PollConfirmation(sender_type, cfg, signature) ==
    /\ pc = "idle"
    /\ entry = "none"
    /\ entry' = "poll_confirmation"
    /\ sender' = sender_type
    /\ retry_config' = cfg
    /\ pc' = "poll"
    /\ poll_signature' = signature
    /\ poll_attempt' = 0
    /\ UNCHANGED << attempt, last_error, rpc_log, send_result, confirm_result >>
    /\ UNCHANGED << gateVars, orchVars, fn_call, serviceVars >>

\* One pass through the loop body of poll_confirmation: the sleep, the
\* query, the match on its answer.
PollAttempt(status) ==
    /\ pc = "poll"
    /\ poll_attempt < retry_config.max_confirm_retries
    /\ rpc_log' = rpc_log \o << SleepEvent(retry_config.poll_interval_ms),
                                StatusEvent(poll_signature, status) >>
    /\ LET returns == on_status(status, poll_signature)
       IN  IF returns.kind # "none"
           THEN /\ confirm_result' = returns
                /\ pc' = "done"
                /\ UNCHANGED poll_attempt
           ELSE /\ poll_attempt' = poll_attempt + 1
                /\ UNCHANGED << pc, confirm_result >>
    /\ UNCHANGED << sender, retry_config, attempt, last_error, send_result >>
    /\ UNCHANGED << entry, poll_signature, gateVars, orchVars, fn_call, serviceVars >>

\* The loop is over: Ok(SendResult::ConfirmationTimeout(signature))
PollTimedOut ==
    /\ pc = "poll"
    /\ ~(poll_attempt < retry_config.max_confirm_retries)
    /\ confirm_result' = ConfirmationTimeout(poll_signature)
    /\ pc' = "done"
    /\ UNCHANGED << sender, retry_config, attempt, last_error, rpc_log, send_result >>
    /\ UNCHANGED << entry, poll_signature, poll_attempt, gateVars, orchVars, fn_call, serviceVars >>

ConfirmSendAnswers ==
    { RpcOk(signature) : signature \in Signatures }
      \cup { RpcErr(<< Word("connection", TRUE), Word("refused", FALSE) >>),
             RpcErr(<< Word("insufficient funds", FALSE), Word("for fee", FALSE) >>),
             RpcErr(<< Word("blockhash", TRUE), Word("not found", FALSE) >>) }

InitConfirm ==
    /\ GateIdle
    /\ OrchIdle
    /\ RetryIdle
    /\ RestIdle

NextConfirm ==
    \/ \E sender_type \in Senders, cfg \in ConfirmConfigs :
           SendAndConfirmWithRetry(sender_type, cfg)
    \/ entry = "send_and_confirm_with_retry" /\ SendWithRetry(sender, retry_config)
    \/ \E answer \in ConfirmSendAnswers, thousandths \in rand_simple :
           SendAttempt(answer, thousandths)
    \/ MaxRetriesExceeded
    \/ MatchSendResult
    \/ \E sender_type \in Senders, cfg \in ConfirmConfigs, signature \in Signatures :
           PollConfirmation(sender_type, cfg, signature)
    \/ \E status \in StatusAnswers : PollAttempt(status)
    \/ PollTimedOut

SpecConfirm == InitConfirm /\ [][NextConfirm]_vars

(***************************************************************************)
(* SpecFn: the pure functions of transaction_retry.rs, each applied once   *)
(* to arguments drawn from small sets.  For calculate_delay the            *)
(* configuration is any value of the public fields and the attempt number  *)
(* runs past the width of the word.                                        *)
(***************************************************************************)
DelayConfigs ==
    { RetryConfig(MaxSendRetries, 30, base_ms, max_ms, 10, jitter) :
        base_ms \in {0, 1, 5}, max_ms \in {100, U64_MAX}, jitter \in BOOLEAN }

AttemptNumbers == 0 .. (WordBits + 2)

\* calculate_delay(attempt, &config)
CalculateDelay(attempt_no, thousandths) ==
    /\ fn_call.fn = "none"
    /\ fn_call' = [ fn |-> "calculate_delay", attempt |-> attempt_no,
                    result |-> calculate_delay(attempt_no, retry_config, thousandths) ]
    /\ UNCHANGED << gateVars, orchVars, retryVars, confirmVars, serviceVars >>

\* The values of anyhow::Result<Signature> and Result<String>.
Ok(value) == [ret |-> "Ok", value |-> value, error |-> << >>]
Err(error) == [ret |-> "Err", value |-> "", error |-> error]

\* format!("Transaction failed after retries: {}", msg)
FailedAfterRetriesMessage(msg) ==
    << Word("transaction failed after retries:", TRUE) >> \o msg

\* pub fn send_result_to_result(result: SendResult) -> Result<Signature>
send_result_to_result(result) ==
    CASE result.kind = "Confirmed" -> Ok(result.signature)
      [] result.kind = "PermanentFailure" -> Err(TransactionFailedMessage(result.message))
      [] result.kind = "RetryableFailure" -> Err(FailedAfterRetriesMessage(result.message))
      [] result.kind = "ConfirmationTimeout" -> Ok(result.signature)

\* JupiterSwapExecutor::execute_swap, the match on the SendResult in its
\* blockhash loop (max_blockhash_retries = 3): what execute_swap returns,
\* or "Continue" when it goes round the loop again.
swap_result(result, blockhash_attempt) ==
    CASE result.kind = "Confirmed" -> Ok(result.signature)
      [] result.kind = "PermanentFailure" -> Err(TransactionFailedMessage(result.message))
      [] result.kind = "RetryableFailure" ->
            IF classify_error(result.message) = "BlockhashExpired" /\ blockhash_attempt < 3 - 1
            THEN [ret |-> "Continue", value |-> "", error |-> result.message]
            ELSE Err(FailedAfterRetriesMessage(result.message))
      [] result.kind = "ConfirmationTimeout" -> Ok(result.signature)

\* Error texts of one or two pieces: phrases of each rule group of
\* classify_error and one of none, in capitals or not.
ClassifyPieces ==
    { Word(w, cap) :
        w \in { "blockhash", "block height exceeded", "rate limit", "429",
                "insufficient funds", "simulation failed", "connection", "try again",
                "node is behind" },
        cap \in BOOLEAN }

ClassifySamples ==
    { << p >> : p \in ClassifyPieces } \cup { << p, q >> : p, q \in ClassifyPieces }

\* classify_error(&error)
ClassifyError(error) ==
    /\ fn_call.fn = "none"
    /\ fn_call' = [ fn |-> "classify_error", arg |-> error,
                    result |-> classify_error(error) ]
    /\ UNCHANGED << gateVars, orchVars, retryVars, confirmVars, serviceVars >>

\* The SendResult values the conversions are applied to.
SendResults ==
    UNION { {Confirmed(sig), ConfirmationTimeout(sig)} : sig \in Signatures }
      \cup { PermanentFailure(e) : e \in ErrorSamples }
      \cup { RetryableFailure(BlockhashRefreshMessage) }
      \cup { RetryableFailure(MaxRetriesMessage(5, e)) : e \in ErrorSamples }

\* send_result_to_result(result)
SendResultToResult(result) ==
    /\ fn_call.fn = "none"
    /\ fn_call' = [ fn |-> "send_result_to_result", arg |-> result,
                    result |-> send_result_to_result(result) ]
    /\ UNCHANGED << gateVars, orchVars, retryVars, confirmVars, serviceVars >>

\* execute_swap, from the SendResult of its send to its return
SwapResult(result, blockhash_attempt) ==
    /\ fn_call.fn = "none"
    /\ fn_call' = [ fn |-> "execute_swap", arg |-> result,
                    result |-> swap_result(result, blockhash_attempt) ]
    /\ UNCHANGED << gateVars, orchVars, retryVars, confirmVars, serviceVars >>

(***************************************************************************)
(* OnChainTask::from_account_data.  The account layout keeps the order of  *)
(* the fields and of the length checks; widths are scaled: a field is one  *)
(* byte wide, the reward, the deadline and the secondary-token reward two, *)
(* and the minimum length falls inside the reward as 160 does in 155..163. *)
(***************************************************************************)
TASK_DISCRIMINATOR == << 79 >>
TASK_STATUS_OFFSET == 8
MIN_ACCOUNT_LEN == 10
MaxAccountLen == 18

\* The byte ranges [from, to) of the fields, in the order they are read.
Layout ==
    [ discriminator |-> << 0, 1 >>, task_id |-> << 1, 2 >>, creator |-> << 2, 3 >>,
      escrow_account |-> << 3, 4 >>, required_capabilities |-> << 4, 5 >>,
      description_hash |-> << 5, 6 >>, constraint_hash |-> << 6, 7 >>,
      reward_lamports |-> << 9, 11 >>, deadline |-> << 11, 13 >>,
      claimed_tag |-> 13, claimed_by |-> << 14, 15 >>, reward_skr_tokens |-> << 15, 17 >> ]

\* &data[from..to] and data[i]: a range or an index past the end panics.
in_bounds(data, range) == range[1] <= range[2] /\ range[2] <= Len(data)
slice(data, range) == SubSeq(data, range[1] + 1, range[2])
Panic == [ret |-> "Panic", value |-> "", error |-> << >>]

\* u64::from_le_bytes
RECURSIVE from_le_bytes(_)
from_le_bytes(bytes) ==
    IF bytes = << >> THEN 0 ELSE Head(bytes) + 256 * from_le_bytes(Tail(bytes))

\* OnChainTaskState::from_byte
from_byte(b) ==
    IF b \in 0 .. 5
    THEN Ok(<< "Open", "InProgress", "PendingValidation", "Completed", "Cancelled", "Disputed" >>[b + 1])
    ELSE Err(<< Word("invalid task state byte", TRUE) >>)

\* A variant of the length check that asks for the discriminator only.
too_short_for_discriminator(data) == Len(data) < Layout.discriminator[2]

\* if data.len() < 160
too_short(data) == Len(data) < MIN_ACCOUNT_LEN

\* The fields read without a length check of their own.
UncheckedReads ==
    { Layout.task_id, Layout.creator, Layout.escrow_account, Layout.required_capabilities,
      Layout.description_hash, Layout.constraint_hash,
      << TASK_STATUS_OFFSET, TASK_STATUS_OFFSET + 1 >> }

from_account_data(data) ==
    LET len   == Len(data)
        field(range) == slice(data, range)
        state == from_byte(data[TASK_STATUS_OFFSET + 1])
    IN  IF too_short(data)
        THEN Err(<< Word("account data too short", TRUE) >>)
        ELSE IF ~in_bounds(data, Layout.discriminator) THEN Panic
        ELSE IF field(Layout.discriminator) # TASK_DISCRIMINATOR
        THEN Err(<< Word("discriminator mismatch", TRUE) >>)
        ELSE IF \E range \in UncheckedReads : ~in_bounds(data, range) THEN Panic
        ELSE IF state.ret = "Err" THEN state
        ELSE Ok([ task_id |-> from_le_bytes(field(Layout.task_id)),
                  creator |-> field(Layout.creator),
                  escrow_account |-> field(Layout.escrow_account),
                  required_capabilities |-> from_le_bytes(field(Layout.required_capabilities)),
                  description_hash |-> field(Layout.description_hash),
                  constraint_hash |-> field(Layout.constraint_hash),
                  state |-> state.value,
                  reward_lamports |->
                      IF len >= Layout.reward_lamports[2]
                      THEN from_le_bytes(field(Layout.reward_lamports)) ELSE 0,
                  deadline |->
                      IF len >= Layout.deadline[2]
                      THEN from_le_bytes(field(Layout.deadline)) ELSE 0,
                  claimed_by |->
                      IF len >= Layout.claimed_by[2] /\ data[Layout.claimed_tag + 1] = 1
                      THEN << "Some", field(Layout.claimed_by) >> ELSE << "None" >>,
                  reward_skr_tokens |->
                      IF len >= Layout.reward_skr_tokens[2]
                      THEN from_le_bytes(field(Layout.reward_skr_tokens)) ELSE 0 ])

\* Account buffers: a task account whose byte i holds fill + i, with the
\* discriminator, the state byte and the option tag as chosen, cut to
\* every length.
Account(disc, state_byte, tag, fill) ==
    [ i \in 1 .. MaxAccountLen |->
        IF i = 1 THEN disc
        ELSE IF i = TASK_STATUS_OFFSET + 1 THEN state_byte
        ELSE IF i = Layout.claimed_tag + 1 THEN tag
        ELSE fill + i ]
AccountSamples ==
    { SubSeq(Account(disc, state_byte, tag, fill), 1, len) :
        disc \in {79, 80}, state_byte \in {0, 3, 5, 6, 255}, tag \in {0, 1, 2},
        fill \in {0, 100}, len \in 0 .. MaxAccountLen }

FromAccountData(data) ==
    /\ fn_call.fn = "none"
    /\ fn_call' = [ fn |-> "from_account_data", arg |-> data,
                    result |-> from_account_data(data) ]
    /\ UNCHANGED << gateVars, orchVars, retryVars, confirmVars, serviceVars >>

InitFn ==
    /\ GateIdle
    /\ OrchIdle
    /\ sender = "TransactionSender"
    /\ retry_config \in DelayConfigs
    /\ pc = "idle"
    /\ attempt = 0
    /\ last_error = << >>
    /\ rpc_log = << >>
    /\ send_result = NoResult
    /\ RestIdle

NextFn ==
    \/ \E attempt_no \in AttemptNumbers, thousandths \in rand_simple :
            CalculateDelay(attempt_no, thousandths)
    \/ \E error \in ClassifySamples : ClassifyError(error)
    \/ \E result \in SendResults : SendResultToResult(result)
    \/ \E result \in SendResults, blockhash_attempt \in 0 .. 2 :
            SwapResult(result, blockhash_attempt)
    \/ \E data \in AccountSamples : FromAccountData(data)

SpecFn == InitFn /\ [][NextFn]_vars

(***************************************************************************)
(* SpecAccess: AccessGate (access/gate.rs).  Tasks call check_access       *)
(* concurrently; a call takes the time, looks the wallet up under the read *)
(* lock, and on a miss reads the balance from the oracle and then writes   *)
(* the cache under the write lock.  Between these steps the other task and *)
(* the clock may move.  Balances are in thousands of tokens.               *)
(***************************************************************************)
TIER_BASIC_THRESHOLD == 10
TIER_PRO_THRESHOLD == 100
TIER_WHALE_THRESHOLD == 1000

\* AccessTier::from_balance(balance, TETSUO_DECIMALS)
from_balance(tokens) ==
    IF tokens >= TIER_WHALE_THRESHOLD THEN "Whale"
    ELSE IF tokens >= TIER_PRO_THRESHOLD THEN "Pro"
    ELSE IF tokens >= TIER_BASIC_THRESHOLD THEN "Basic"
    ELSE "None"

\* The capacity of the cache (1000 in the source).
MAX_CACHE_SIZE == 2

\* The clock runs until an entry written at its start has expired; a
\* behaviour makes at most MaxCalls check_access calls.
MaxClock == DEFAULT_CACHE_DURATION_SECS
MaxCalls == MAX_CACHE_SIZE + 1

Holders == {"walletA", "walletB", "walletC"}

\* What checker.get_tetsuo_balance answers: the balance on the chain at that
\* moment.  Every holder earns one basic threshold a second, so that a
\* reading tells the second it was taken in.
TokensAt(second) == second * TIER_BASIC_THRESHOLD

\* get_tetsuo_balance: Ok(amount) when the RPC answers, and Ok(0) as well
\* when the RPC call fails ("assuming 0"); it never returns Err.
get_tetsuo_balance(second) == {TokensAt(second), 0}

\* A variant of the freshness test that takes an entry of age ttl as fresh.
fresh_inclusive(cached, now, ttl) == now - cached.cached_at <= ttl

\* now - cached.cached_at < self.cache_duration_secs
fresh(cached, now, ttl) == now - cached.cached_at < ttl

\* A variant of the capacity test that lets the cache grow one past it.
at_capacity_strict(cache) == Cardinality(DOMAIN cache) > MAX_CACHE_SIZE

\* cache.len() >= MAX_CACHE_SIZE
at_capacity(cache) == Cardinality(DOMAIN cache) >= MAX_CACHE_SIZE

\* cache.iter().min_by_key(|(_, v)| v.cached_at): the keys it may give (the
\* first minimum in the order the map iterates in, which is arbitrary).
oldest_key(cache) ==
    {k \in DOMAIN cache : \A h \in DOMAIN cache : cache[k].cached_at <= cache[h].cached_at}

remove(cache, key) == [h \in DOMAIN cache \ {key} |-> cache[h]]
insert(cache, key, value) ==
    [h \in DOMAIN cache \cup {key} |-> IF h = key THEN value ELSE cache[h]]
get(cache, key) == IF key \in DOMAIN cache THEN cache[key] ELSE NoEntry

\* check_access(wallet) begins: let now = chrono::Utc::now().timestamp()
CheckAccess(t, wallet) ==
    /\ calls[t].pc = "idle"
    /\ calls_begun < MaxCalls
    /\ calls_begun' = calls_begun + 1
    /\ calls' = [calls EXCEPT ![t] = [NoCall EXCEPT !.pc = "read", !.wallet = wallet, !.now = clock]]
    /\ UNCHANGED << tier_cache, cache_duration_secs, clock, last_return >>
    /\ UNCHANGED << gateVars, orchVars, retryVars, fn_call, confirmVars, lockVars, swapVars >>

\* The block under the read lock: a fresh entry is returned, else the call
\* goes on to the oracle.
ReadCache(t) ==
    /\ calls[t].pc = "read"
    /\ LET c == calls[t]
           cached == get(tier_cache, c.wallet)
       IN  IF cached.present /\ fresh(cached, c.now, cache_duration_secs)
           THEN /\ calls' = [calls EXCEPT ![t] = NoCall]
                /\ last_return' = Return(t, c.wallet, FALSE, "", cached.tier, cached.balance)
           ELSE /\ calls' = [calls EXCEPT ![t] = [c EXCEPT !.pc = "fetch"]]
                /\ UNCHANGED last_return
    /\ UNCHANGED << tier_cache, cache_duration_secs, clock, calls_begun >>
    /\ UNCHANGED << gateVars, orchVars, retryVars, fn_call, confirmVars, lockVars, swapVars >>

\* let balance = self.checker.get_tetsuo_balance(wallet)?;
FetchBalance(t) ==
    /\ calls[t].pc = "fetch"
    /\ \E amount \in get_tetsuo_balance(clock) :
         calls' = [calls EXCEPT ![t] = [@ EXCEPT !.pc = "write", !.balance = amount]]
    /\ UNCHANGED << tier_cache, cache_duration_secs, clock, calls_begun, last_return >>
    /\ UNCHANGED << gateVars, orchVars, retryVars, fn_call, confirmVars, lockVars, swapVars >>

\* The block under the write lock: evict the oldest entry of a full cache,
\* insert the fresh one; then Ok((tier, balance)).
WriteCache(t) ==
    /\ calls[t].pc = "write"
    /\ LET c == calls[t]
           tier == from_balance(c.balance)
           evictable == IF at_capacity(tier_cache) THEN oldest_key(tier_cache) ELSE {}
       IN  \E key \in IF evictable = {} THEN {""} ELSE evictable :
             /\ tier_cache' = insert(remove(tier_cache, key), c.wallet,
                                     CachedTier(tier, c.balance, c.now))
             /\ last_return' = Return(t, c.wallet, TRUE, key, tier, c.balance)
    /\ calls' = [calls EXCEPT ![t] = NoCall]
    /\ UNCHANGED << cache_duration_secs, clock, calls_begun >>
    /\ UNCHANGED << gateVars, orchVars, retryVars, fn_call, confirmVars, lockVars, swapVars >>

\* invalidate_cache(wallet): removes the entry under the write lock.  A call
\* for the wallet that has its oracle reading and has not yet written is
\* marked: its reading was taken before this invalidation.
InvalidateCache(wallet) ==
    /\ \/ wallet \in DOMAIN tier_cache
       \/ \E t \in Tasks : calls[t].pc = "write" /\ calls[t].wallet = wallet /\ ~calls[t].invalidated
    /\ tier_cache' = remove(tier_cache, wallet)
    /\ calls' = [ t \in Tasks |->
                   IF calls[t].pc = "write" /\ calls[t].wallet = wallet
                   THEN [calls[t] EXCEPT !.invalidated = TRUE] ELSE calls[t] ]
    /\ UNCHANGED << cache_duration_secs, clock, calls_begun, last_return >>
    /\ UNCHANGED << gateVars, orchVars, retryVars, fn_call, confirmVars, lockVars, swapVars >>

\* A second passes.
Tick ==
    /\ clock < MaxClock
    /\ clock' = clock + 1
    /\ UNCHANGED << tier_cache, cache_duration_secs, calls, calls_begun, last_return >>
    /\ UNCHANGED << gateVars, orchVars, retryVars, fn_call, confirmVars, lockVars, swapVars >>

InitAccess ==
    /\ GateIdle
    /\ OrchIdle
    /\ RetryIdle
    /\ fn_call = [fn |-> "none"]
    /\ ConfirmIdle
    /\ tier_cache = [h \in {} |-> NoEntry]
    /\ cache_duration_secs = DEFAULT_CACHE_DURATION_SECS
    /\ clock = 0
    /\ calls = [t \in Tasks |-> NoCall]
    /\ calls_begun = 0
    /\ last_return = NoReturn
    /\ LockIdle
    /\ SwapIdle

NextAccess ==
    \/ \E t \in Tasks, wallet \in Holders : CheckAccess(t, wallet)
    \/ \E t \in Tasks : ReadCache(t)
    \/ \E t \in Tasks : FetchBalance(t)
    \/ \E t \in Tasks : WriteCache(t)
    \/ \E wallet \in Holders : InvalidateCache(wallet)
    \/ Tick

SpecAccess == InitAccess /\ [][NextAccess]_vars

(***************************************************************************)
(* SpecLock: the keypair locks.  SolanaExecutor.keypair is a tokio RwLock  *)
(* ("solana"), JupiterSwapExecutor.keypair a std RwLock ("jupiter").  An   *)
(* operation is the list of its lock operations and suspension points, in  *)
(* program order; a guard not dropped by a step of the list lives to the   *)
(* end of the function.  A task stands at a suspension point (an await of  *)
(* a lock, or a network call in flight) and runs from one to the next in   *)
(* one step.                                                               *)
(***************************************************************************)
Step(kind, lock, name) == [kind |-> kind, lock |-> lock, name |-> name]

\* kind: "read" (lock.read().await), "sync_read" (lock.read() of the std
\* lock), "drop" (the guard's scope ends), "write" (lock.write().await and
\* the assignment), "net" (an RPC or HTTP call).
OpSteps(op) ==
    CASE op = "get_wallet_info" ->
            << Step("read", "solana", "keypair.read"),
               Step("net", "", "get_balance") >>
      [] op = "create_task" ->
            << Step("read", "solana", "keypair.read"),
               Step("net", "", "get_balance"),
               Step("net", "", "get_latest_blockhash"),
               Step("net", "", "send_and_confirm_transaction") >>
      [] op = "claim_task" ->
            << Step("read", "solana", "keypair.read"),
               Step("net", "", "get_latest_blockhash"),
               Step("net", "", "send_and_confirm_transaction") >>
      [] op = "complete_task" ->
            << Step("read", "solana", "keypair.read"),
               Step("net", "", "fetch_task_by_id"),
               Step("net", "", "get_latest_blockhash"),
               Step("net", "", "send_and_confirm_transaction") >>
      [] op = "execute_swap" ->
            << Step("sync_read", "jupiter", "keypair.read"),
               Step("drop", "jupiter", "guard dropped here"),
               Step("net", "", "get_quote"),
               Step("net", "", "swap request"),
               Step("net", "", "get_latest_blockhash"),
               Step("net", "", "send_and_confirm_with_retry") >>
      [] op = "load_keypair" ->
            << Step("write", "solana", "keypair.write") >>

Operations ==
    { "get_wallet_info", "create_task", "claim_task", "complete_task", "execute_swap",
      "load_keypair" }

\* What the lock guards: Some(keypair) or None.
Guarded(lock) == IF lock = "solana" THEN keypair ELSE swap_keypair

\* The operation runs on from step i with the guards `held`, up to its next
\* suspension point or to its end (pc 0), where its guards are dropped.  An
\* operation that finds no keypair under its guard returns at once.
RECURSIVE run_on(_, _, _)
run_on(op, i, held) ==
    IF i > Len(OpSteps(op))
    THEN NoOp
    ELSE LET step == OpSteps(op)[i]
         IN  CASE step.kind = "sync_read" ->
                    IF Guarded(step.lock) = "None"
                    THEN NoOp
                    ELSE run_on(op, i + 1, held \cup {step.lock})
               [] step.kind = "drop" -> run_on(op, i + 1, held \ {step.lock})
               [] OTHER -> [op |-> op, pc |-> i, held |-> held]

Readers(lock) == {t \in Tasks : lock \in ops[t].held}
AtStep(t) == OpSteps(ops[t].op)[ops[t].pc]
Suspended(t, kind) == ops[t].op # "none" /\ AtStep(t).kind = kind

\* A task calls an operation and runs to its first suspension point.
Begin(t, op) ==
    /\ ops[t].op = "none"
    /\ ops' = [ops EXCEPT ![t] = run_on(op, 1, {})]
    /\ UNCHANGED << gateVars, orchVars, retryVars, fn_call, confirmVars, accessVars, swapVars >>

\* keypair.read().await is granted; the operation goes on with the guard, or
\* returns when there is no keypair.
ReadGranted(t) ==
    /\ Suspended(t, "read")
    /\ ops' = [ops EXCEPT ![t] =
                 IF Guarded(AtStep(t).lock) = "None"
                 THEN NoOp
                 ELSE run_on(ops[t].op, ops[t].pc + 1, ops[t].held \cup {AtStep(t).lock})]
    /\ UNCHANGED << gateVars, orchVars, retryVars, fn_call, confirmVars, accessVars, swapVars >>

\* *self.keypair.write().await = Some(keypair): granted once no guard is out.
WriteGranted(t) ==
    /\ Suspended(t, "write")
    /\ Readers(AtStep(t).lock) = {}
    /\ keypair' = "Some"
    /\ ops' = [ops EXCEPT ![t] = run_on(ops[t].op, ops[t].pc + 1, ops[t].held)]
    /\ UNCHANGED << swap_keypair, balance, chain_tasks, last_command, confirmed_spend >>
    /\ UNCHANGED << gateVars, retryVars, fn_call, confirmVars, accessVars, swapVars >>

\* The network call in flight answers: the operation goes on, or returns
\* the error (the ? operator).
NetworkAnswers(t, ok) ==
    /\ Suspended(t, "net")
    /\ ops' = [ops EXCEPT ![t] =
                 IF ok THEN run_on(ops[t].op, ops[t].pc + 1, ops[t].held) ELSE NoOp]
    /\ UNCHANGED << gateVars, orchVars, retryVars, fn_call, confirmVars, accessVars, swapVars >>

InitLock ==
    /\ GateIdle
    /\ keypair = "None"
    /\ swap_keypair \in {"None", "Some"}
    /\ balance = 0
    /\ chain_tasks = << >>
    /\ last_command = NoCommand
    /\ confirmed_spend = 0
    /\ RetryIdle
    /\ RestIdle

NextLock ==
    \/ \E t \in Tasks, op \in Operations : Begin(t, op)
    \/ \E t \in Tasks : ReadGranted(t)
    \/ \E t \in Tasks : WriteGranted(t)
    \/ \E t \in Tasks, ok \in BOOLEAN : NetworkAnswers(t, ok)

SpecLock == InitLock /\ [][NextLock]_vars

\* The lamports the executor moves for a spending intent: create_task sends
\* (params.reward_sol * 1e9) as u64, route_swap hands params.amount to
\* execute_swap.
executor_amount(intent) ==
    IF intent.action = "CreateTask" THEN F64AsU64(intent.params["reward_sol"].v)
    ELSE intent.params["amount"].v

(***************************************************************************)
(* SpecSwap: one call of JupiterSwapExecutor::execute_swap from the signing *)
(* loop on (the quote and the swap transaction are fetched), with the      *)
(* ledger the transactions are sent to.  Each pass signs the transaction   *)
(* with a fresh blockhash, which makes it a transaction of its own to the  *)
(* ledger, and runs send_and_confirm_with_retry on it.                     *)
(***************************************************************************)
\* TransactionSender::new(&self.rpc): the default configuration, with the
\* retry counts scaled down.
SwapRetryConfig == RetryConfig(2, 1, 5, 100, 10, FALSE)

SwapRunning == [ret |-> "Running", value |-> "", error |-> << >>]

\* A send of the transaction of this pass was answered Ok or timed out, so
\* the node may have taken the transaction, and no send was answered that
\* its blockhash is unknown.
RequestTimedOut == << Word("request", FALSE), Word("timeout", FALSE) >>
BlockhashNotFound == << Word("blockhash", TRUE), Word("not found", FALSE) >>
MayHaveBeenTaken ==
    /\ pc # "idle"
    /\ \E i \in 1 .. Len(rpc_log) :
          /\ rpc_log[i].ev = "send"
          /\ rpc_log[i].answer.ok \/ rpc_log[i].answer.error = RequestTimedOut
    /\ \A i \in 1 .. Len(rpc_log) :
          rpc_log[i].ev = "send" => rpc_log[i].answer.error # BlockhashNotFound

\* The ledger answers "already processed" only for a transaction it has
\* ledger_accepted, and reports a transaction confirmed only if it ledger_accepted it.
AlreadyProcessed == << Word("transaction has already been processed", FALSE) >>
LedgerCanAnswer(answer) ==
    (~answer.ok /\ answer.error = AlreadyProcessed) => blockhash_pass \in ledger_accepted
LedgerCanReport(status) ==
    /\ status.kind = "Confirmed" => blockhash_pass \in ledger_accepted
    /\ status.kind = "Failed" => blockhash_pass \notin ledger_accepted

SwapSendAnswers ==
    { RpcOk("sig1"),
      RpcErr(RequestTimedOut),
      RpcErr(<< Word("insufficient funds", FALSE), Word("for fee", FALSE) >>),
      RpcErr(BlockhashNotFound),
      RpcErr(AlreadyProcessed) }

\* The head of a pass: get_latest_blockhash, set_recent_blockhash, sign,
\* TransactionSender::new(&self.rpc).send_and_confirm_with_retry(&tx).
SignAndSubmit ==
    /\ swap_return.ret \in {"Idle", "Continue"}
    /\ pc = "idle"
    /\ entry = "none"
    /\ entry' = "send_and_confirm_with_retry"
    /\ sender' = "TransactionSender"
    /\ retry_config' = SwapRetryConfig
    /\ swap_return' = SwapRunning
    /\ UNCHANGED << pc, attempt, last_error, rpc_log, send_result >>
    /\ UNCHANGED << poll_signature, poll_attempt, confirm_result >>
    /\ UNCHANGED << blockhash_pass, ledger_accepted >>
    /\ UNCHANGED << gateVars, orchVars, fn_call, accessVars, lockVars >>

\* The ledger accepts the transaction of this pass.
LedgerAccepts ==
    /\ swap_return.ret = "Running"
    /\ MayHaveBeenTaken
    /\ blockhash_pass \notin ledger_accepted
    /\ ledger_accepted' = ledger_accepted \cup {blockhash_pass}
    /\ UNCHANGED << blockhash_pass, swap_return >>
    /\ UNCHANGED << gateVars, orchVars, retryVars, fn_call, confirmVars, accessVars, lockVars >>

\* The match on the SendResult of the pass: return, or continue with the
\* next pass.
MatchSwapResult ==
    /\ swap_return.ret = "Running"
    /\ entry = "send_and_confirm_with_retry"
    /\ pc = "done"
    /\ LET r == swap_result(confirm_result, blockhash_pass)
       IN  /\ swap_return' = r
           /\ blockhash_pass' = IF r.ret = "Continue" THEN blockhash_pass + 1
                                   ELSE blockhash_pass
    /\ pc' = "idle"
    /\ entry' = "none"
    /\ UNCHANGED << sender, retry_config, attempt, last_error, rpc_log, send_result >>
    /\ UNCHANGED << poll_signature, poll_attempt, confirm_result, ledger_accepted >>
    /\ UNCHANGED << gateVars, orchVars, fn_call, accessVars, lockVars >>

InitSwap ==
    /\ GateIdle
    /\ OrchIdle
    /\ RetryIdle
    /\ RestIdle

NextSwap ==
    \/ SignAndSubmit
    \/ entry = "send_and_confirm_with_retry" /\ SendWithRetry(sender, retry_config)
    \/ \E answer \in SwapSendAnswers :
           LedgerCanAnswer(answer) /\ SendAttempt(answer, 0)
    \/ MaxRetriesExceeded
    \/ MatchSendResult
    \/ \E status \in StatusAnswers : LedgerCanReport(status) /\ PollAttempt(status)
    \/ PollTimedOut
    \/ LedgerAccepts
    \/ MatchSwapResult

SpecSwap == InitSwap /\ [][NextSwap]_vars

(***************************************************************************)
(* Claims about check_policy (SpecCheck).                                  *)
(***************************************************************************)
IsCheck == gate_call.op = "check_policy"

\* The action is named by an entry of blocked_actions, in either spelling.
NamedBlocked(a) ==
    SnakeCase(a) \in config.blocked_actions \/ blocked_name(a) \in config.blocked_actions

IsDenial(r, ctype) ==
    r.kind = "verdict" /\ ~r.allowed /\ r.confirmation_type = ctype

\* C3: a non-blocked spending action with amount a and session total s is
\* denied with confirmation type Hardware exactly when s + a exceeds the
\* 10 SOL ceiling and no hardware wallet is connected; with a hardware
\* wallet it is never denied.
C3_SessionCeiling ==
    (IsCheck /\ gate_call.intent.action \in SpendingActions
             /\ ~NamedBlocked(gate_call.intent.action))
    => LET s == session_spending_lamports
           a == amount_lamports(gate_call.intent)
           r == gate_call.result
       IN  /\ IsDenial(r, "Hardware")
                <=> (s + a > Sol(SESSION_LIMIT_SOL) /\ ~hardware_wallet_connected)
           /\ hardware_wallet_connected => (r.kind = "verdict" /\ r.allowed)

\* C4: an intent whose action is named in blocked_actions by an entry
\* written like the default "export_key" (snake_case) is denied with no
\* confirmation, whatever else holds.
C4_BlockedDenied ==
    (IsCheck /\ SnakeCase(gate_call.intent.action) \in config.blocked_actions)
    => gate_call.result = PolicyCheck(FALSE, FALSE, "None")

\* The confirmation type C5 states, by its rules in priority order.
C5_Rule(amount) ==
    IF amount <= config.voice_only_max_sol /\ config.allow_voice_only_small
    THEN "Verbal"
    ELSE IF amount > config.large_threshold_sol /\ config.hardware_for_large
    THEN (IF hardware_wallet_connected THEN "Hardware" ELSE "Typed")
    ELSE (IF config.always_require_typed THEN "Typed" ELSE "Verbal")

C6_AlwaysTyped ==
    (IsCheck /\ gate_call.intent.action \in SpendingActions
             /\ config.always_require_typed
             /\ gate_call.result.kind = "verdict" /\ gate_call.result.allowed)
    => gate_call.result.confirmation_type # "Verbal"

\* The verdict of each action that is neither blocked nor spending.
C7_Verdict(a) ==
    CASE a \in { "ListOpenTasks", "GetTaskStatus", "GetBalance", "GetAddress",
                 "GetProtocolState", "Help", "Unknown", "GetSwapQuote",
                 "GetTokenPrice" }          -> PolicyCheck(TRUE, FALSE, "None")
      [] a \in {"ClaimTask", "CompleteTask"} -> PolicyCheck(TRUE, TRUE, "Verbal")
      [] a = "CancelTask"                    -> PolicyCheck(TRUE, TRUE, "Typed")
      [] a \in { "CodeFix", "CodeReview", "CodeGenerate", "CodeExplain",
                 "GenerateImage" }           -> PolicyCheck(TRUE, FALSE, "None")
      [] a = "SendBulkEmail"                 -> PolicyCheck(TRUE, TRUE, "Typed")
      [] OTHER                               -> PolicyCheck(TRUE, TRUE, "Verbal")

\* C7: the verdict for a non-blocked, non-spending action is a function of
\* the action alone: read-only actions need no confirmation, claim and
\* complete need Verbal, cancel needs Typed.
C7_FixedVerdicts ==
    (IsCheck /\ gate_call.intent.action \notin SpendingActions
             /\ ~NamedBlocked(gate_call.intent.action))
    => gate_call.result = C7_Verdict(gate_call.intent.action)

\* CancelTask is checked with params naming an amount, the session at the
\* ceiling and a hardware wallet connected, and still gets Typed.
C7_Witness ==
    /\ IsCheck /\ gate_call.intent.action = "CancelTask"
    /\ "reward_sol" \in DOMAIN gate_call.intent.params
    /\ session_spending_lamports = Sol(10)
    /\ hardware_wallet_connected
    /\ gate_call.result = PolicyCheck(TRUE, TRUE, "Typed")

(***************************************************************************)
(* Claims about the session total (SpecGate).                              *)
(***************************************************************************)
\* C8: the session total equals the sum of the amounts passed to
\* record_spending since the most recent reset_session (or creation).
C8_TotalIsSum == session_spending_lamports = recorded_total

(***************************************************************************)
(* Claims about the orchestrator's commands (Spec).                        *)
(***************************************************************************)
StateChangingActions ==
    {"CreateTask", "ClaimTask", "CompleteTask", "CancelTask", "SwapTokens"}

\* The most recent command carried a state-changing action out: its
\* transaction was accepted by the ledger, or (cancel) it reported success.
Executed ==
    /\ last_command.intent.action \in StateChangingActions
    /\ \/ Landed(last_command.result)
       \/ /\ last_command.intent.action = "CancelTask"
          /\ last_command.result.ret = "Ok" /\ last_command.result.success

\* C1: a command executes a state-changing action only if check_policy
\* allows that intent in the state the command runs in; an intent that
\* check_policy denies is executed by no command.
C1_ExecutedOnlyIfAllowed ==
    Executed => (last_command.verdict.kind = "verdict" /\ last_command.verdict.allowed)

\* C2: the session total is the sum of the amounts of the spending
\* transactions the orchestrator has seen confirmed, each counted once and
\* nothing else counted.
C2_RecordedOnceAfterConfirmation == session_spending_lamports = confirmed_spend

(***************************************************************************)
(* Claims about send_with_retry (SpecSend).                                *)
(***************************************************************************)
\* The places of rpc_log that are send_transaction calls.
Sends == {i \in 1..Len(rpc_log) : rpc_log[i].ev = "send"}

FailedAs(i, kinds) ==
    /\ ~rpc_log[i].answer.ok
    /\ classify_error(rpc_log[i].answer.error) \in kinds

\* text occurs in message
HasText(message, text) ==
    \E k \in 0..(Len(message) - Len(text)) :
        SubSeq(message, k + 1, k + Len(text)) = text

\* C9: a send failure classified Permanent or BlockhashExpired is the last
\* thing the call does (no send and no sleep follows it) and the call has
\* returned: PermanentFailure with the error text for Permanent,
\* RetryableFailure saying a refresh is required for BlockhashExpired.
C9_AbortsOnPermanentOrBlockhash ==
    \A i \in Sends :
        LET error == rpc_log[i].answer.error
        IN  /\ FailedAs(i, {"Permanent"})
               => /\ i = Len(rpc_log)
                  /\ pc = "returned"
                  /\ send_result = PermanentFailure(error)
            /\ FailedAs(i, {"BlockhashExpired"})
               => /\ i = Len(rpc_log)
                  /\ pc = "returned"
                  /\ send_result.kind = "RetryableFailure"
                  /\ contains(to_lowercase(send_result.message), "refresh required")

\* The async sender has returned PermanentFailure on its third send, after
\* two failed attempts, one of them rate limited.
C9_Witness ==
    /\ sender = "AsyncTransactionSender"
    /\ pc = "returned"
    /\ send_result.kind = "PermanentFailure"
    /\ Cardinality(Sends) = 3
    /\ \E i \in Sends : FailedAs(i, {"RateLimited"})
    /\ FailedAs(Len(rpc_log), {"Permanent"})

C10_Bounded ==
    /\ Cardinality(Sends) <= retry_config.max_send_retries
    /\ \A i \in Sends :
           rpc_log[i].answer.ok
           => /\ i = Len(rpc_log)
              /\ pc = "returned"
              /\ send_result = Confirmed(rpc_log[i].answer.signature)
    /\ (pc = "returned" /\ \A i \in Sends : FailedAs(i, {"Retryable", "RateLimited"}))
       => /\ send_result.kind = "RetryableFailure"
          /\ \A i \in Sends :
                 (\A j \in Sends : j <= i)
                 => HasText(send_result.message, rpc_log[i].answer.error)

\* C10: a call makes at most max_send_retries send_transaction calls and
\* returns: Confirmed with the signature at the first send that succeeds,
\* which is its last; RetryableFailure with the last attempt's error text
\* in its message when every attempt failed as Retryable or RateLimited.
C10_Terminates ==
    /\ [] C10_Bounded
    /\ (pc = "loop") ~> (pc = "returned")

\* All five attempts of the default configuration failed, and the call
\* returned RetryableFailure.
C10_Witness ==
    /\ pc = "returned"
    /\ retry_config = DefaultRetryConfig
    /\ Cardinality(Sends) = retry_config.max_send_retries
    /\ \A i \in Sends : FailedAs(i, {"Retryable", "RateLimited"})
    /\ send_result.kind = "RetryableFailure"
    /\ HasText(send_result.message, last_error)
    /\ last_error # << >>

\* The sends of rpc_log before place i: the attempt number of the send at i.
AttemptOf(i) == Cardinality({j \in Sends : j < i})

\* C11: a send failure classified RateLimited is followed at once by a
\* sleep of max_delay_ms, before any further send; it does not end the
\* call (the call returns after it only when the attempts are used up, with
\* the max-retries failure), and it has used up one attempt.
C11_RateLimitedSleepsMaxDelay ==
    \A i \in Sends :
        FailedAs(i, {"RateLimited"})
        => /\ i < Len(rpc_log)
           /\ rpc_log[i + 1] = SleepEvent(retry_config.max_delay_ms)
           /\ (pc = "loop" /\ \A j \in Sends : j <= i) => attempt = AttemptOf(i) + 1
           /\ (pc = "returned" /\ \A j \in Sends : j <= i)
              => /\ AttemptOf(i) + 1 = retry_config.max_send_retries
                 /\ send_result = RetryableFailure(
                        MaxRetriesMessage(retry_config.max_send_retries,
                                          rpc_log[i].answer.error))

\* A rate-limited first attempt was followed by the max_delay sleep, the
\* back-off sleep and a second send.
C11_Witness ==
    /\ Cardinality(Sends) >= 2
    /\ FailedAs(1, {"RateLimited"})
    /\ rpc_log[2] = SleepEvent(retry_config.max_delay_ms)
    /\ rpc_log[3].ev = "sleep"
    /\ rpc_log[4].ev = "send"

(***************************************************************************)
(* Claims about the pure functions (SpecFn).                               *)
(***************************************************************************)
\* C12: with jitter disabled, calculate_delay(n) is min(base_delay * 2^n,
\* max_delay) for every n, the product taken in the integers: a large n
\* yields max_delay, never a smaller value.
C12_DelayIsCappedExponential ==
    (fn_call.fn = "calculate_delay" /\ ~retry_config.jitter)
    => fn_call.result
         = Min(retry_config.base_delay_ms * Pow2(fn_call.attempt), retry_config.max_delay_ms)

(***************************************************************************)
(* Claims about poll_confirmation and send_and_confirm_with_retry          *)
(* (SpecConfirm).                                                          *)
(***************************************************************************)
Queries == {i \in DOMAIN rpc_log : rpc_log[i].ev = "status"}
LastQuery == CHOOSE i \in Queries : \A j \in Queries : j <= i
Inconclusive == {"Unknown", "RpcError"}

\* C13: poll_confirmation makes at most max_confirm_retries status queries,
\* each right after one sleep of poll_interval_ms; the first query answered
\* with on-chain success ends the call with Confirmed, the first answered
\* with an on-chain rejection ends it with PermanentFailure; a query whose
\* answer is "not known yet" or an RPC error uses up one iteration and the
\* polling goes on; ConfirmationTimeout carries the polled signature and is
\* returned only when all the iterations are used up.
C13_Polling ==
    /\ Cardinality(Queries) <= retry_config.max_confirm_retries
    /\ \A i \in Queries :
        /\ i > 1
        /\ rpc_log[i - 1] = SleepEvent(retry_config.poll_interval_ms)
        /\ i > 2 => rpc_log[i - 2].ev # "sleep"
        /\ rpc_log[i].answer.signature = poll_signature
        /\ rpc_log[i].status = "Confirmed"
           => /\ i = Len(rpc_log)
              /\ pc = "done"
              /\ confirm_result = Confirmed(poll_signature)
        /\ rpc_log[i].status = "Failed"
           => /\ i = Len(rpc_log)
              /\ pc = "done"
              /\ confirm_result.kind = "PermanentFailure"
              /\ confirm_result.message = TransactionFailedMessage(rpc_log[i].answer.error)
        /\ rpc_log[i].status \in Inconclusive
           => \/ i < LastQuery
              \/ pc = "poll" /\ poll_attempt = Cardinality(Queries)
              \/ /\ pc = "done"
                 /\ Cardinality(Queries) = retry_config.max_confirm_retries
                 /\ confirm_result.kind = "ConfirmationTimeout"
    /\ confirm_result.kind = "ConfirmationTimeout"
       => /\ confirm_result.signature = poll_signature
          /\ Cardinality(Queries) = retry_config.max_confirm_retries
          /\ \A i \in Queries : rpc_log[i].status \in Inconclusive

C13_Witness ==
    /\ pc = "done"
    /\ confirm_result = ConfirmationTimeout("sig2")
    /\ Cardinality(Queries) = MaxConfirmRetries
    /\ \E i, j \in Queries : rpc_log[i].status = "Unknown" /\ rpc_log[j].status = "RpcError"

\* C14: in send_and_confirm_with_retry a status query is made only when the
\* send phase returned Confirmed, and every query asks about the signature
\* the send returned; when the send phase returns PermanentFailure or
\* RetryableFailure the call returns that very result and never polls.
C14_PollsOnlyAfterSend ==
    entry = "send_and_confirm_with_retry"
    => /\ (Queries # {} \/ pc = "poll")
          => /\ send_result.kind = "Confirmed"
             /\ poll_signature = send_result.signature
             /\ \A i \in Queries : rpc_log[i].answer.signature = send_result.signature
       /\ (pc \in {"poll", "done"} /\ send_result.kind \in {"PermanentFailure", "RetryableFailure"})
          => /\ pc = "done"
             /\ Queries = {}
             /\ confirm_result.kind = send_result.kind
             /\ confirm_result.message = send_result.message

C14_Witness ==
    /\ entry = "send_and_confirm_with_retry"
    /\ send_result = Confirmed("sig2")
    /\ Cardinality(Sends) = 2
    /\ Cardinality(Queries) = 2
    /\ rpc_log[LastQuery].answer.signature = "sig2"

\* C15: the value a caller gets for a ConfirmationTimeout differs from the
\* value it gets for a Confirmed transaction and from the value it gets for
\* a failed one, on each path that reports a send outcome: the SendResult,
\* send_result_to_result, execute_swap.
C15_TimeoutDistinct ==
    (fn_call.fn \in {"send_result_to_result", "execute_swap"}
        /\ fn_call.arg.kind = "ConfirmationTimeout")
    => /\ fn_call.arg.kind # "Confirmed"
       /\ fn_call.result.ret # "Err"
       /\ \A sig \in Signatures :
            /\ fn_call.result # send_result_to_result(Confirmed(sig))
            /\ fn_call.result # swap_result(Confirmed(sig), 0)

BlockhashPhrases ==
    {"blockhash", "block height exceeded", "transaction has already been processed"}
RateLimitPhrases == {"rate limit", "too many requests", "429"}
PermanentPhrases ==
    { "insufficient funds", "insufficient lamports", "invalid signature",
      "invalid account", "account not found", "program failed",
      "custom program error", "simulation failed" }
Mentions(text, phrases) == \E i \in DOMAIN text : text[i].w \in phrases

\* C16: classify_error ignores case and takes the first matching group in
\* the order blockhash, rate limit, permanent, retryable: a text with a
\* blockhash phrase is BlockhashExpired whatever else it holds, else one
\* with a rate-limit phrase is RateLimited, else one with a fund, signature,
\* account, program or simulation phrase is Permanent, and any other text
\* (with a connection phrase or with no phrase at all) is Retryable.
C16_PriorityOrder ==
    fn_call.fn = "classify_error"
    => fn_call.result
         = IF Mentions(fn_call.arg, BlockhashPhrases) THEN "BlockhashExpired"
           ELSE IF Mentions(fn_call.arg, RateLimitPhrases) THEN "RateLimited"
           ELSE IF Mentions(fn_call.arg, PermanentPhrases) THEN "Permanent"
           ELSE "Retryable"

C16_Witness ==
    /\ fn_call.fn = "classify_error"
    /\ fn_call.arg = << Word("simulation failed", FALSE), Word("block height exceeded", TRUE) >>
    /\ fn_call.result = "BlockhashExpired"

(***************************************************************************)
(* Claims about the access-tier cache (SpecAccess).                        *)
(***************************************************************************)
Size(cache) == Cardinality(DOMAIN cache)
FreshEntryFor(c) ==
    /\ c.wallet \in DOMAIN tier_cache
    /\ c.now - tier_cache[c.wallet].cached_at < cache_duration_secs

\* The step of task t that looks into the cache.
C17_Lookup(t) ==
    LET c == calls[t]
    IN  /\ calls'[t].pc = "fetch" <=> ~FreshEntryFor(c)
        /\ FreshEntryFor(c)
           => /\ calls'[t].pc = "idle"
              /\ last_return' = Return(t, c.wallet, FALSE, "", tier_cache[c.wallet].tier,
                                       tier_cache[c.wallet].balance)
              /\ tier_cache' = tier_cache

\* C17: a check_access call goes to the balance oracle if and only if the
\* cache, as the call finds it, has no entry for the wallet with
\* now - cached_at < ttl (now: the time of the call); on a hit it returns
\* the cached tier and balance and leaves the cache as it is; an entry of
\* age ttl or more is never returned; the oracle is asked by no other path.
C17_QueriesOnlyOnMiss ==
    [][ \A t \in Tasks :
          /\ (calls[t].pc = "read" /\ calls'[t] # calls[t]) => C17_Lookup(t)
          /\ (calls'[t].pc = "fetch" /\ calls[t].pc # "fetch") => calls[t].pc = "read"
          /\ (calls'[t].pc = "write" /\ calls[t].pc # "write") => calls[t].pc = "fetch"
          /\ (last_return' # last_return /\ last_return'.task = t /\ ~last_return'.queried)
             => /\ FreshEntryFor(calls[t])
                /\ tier_cache' = tier_cache ]_vars

\* Two calls for walletA, one after the other within the TTL: the second
\* is a hit on the entry the first one wrote, so the oracle was asked once.
C17_Witness ==
    /\ calls_begun = 2
    /\ \A t \in Tasks : calls[t].pc = "idle"
    /\ clock = 1
    /\ last_return = Return(1, "walletA", FALSE, "", "None", 0)
    /\ DOMAIN tier_cache = {"walletA"}
    /\ tier_cache["walletA"].cached_at = 0

\* The write of task t that inserts a wallet the full cache does not hold.
C18_Eviction(t) ==
    LET w == calls[t].wallet
    IN  \E k \in DOMAIN tier_cache :
          /\ \A h \in DOMAIN tier_cache : tier_cache[k].cached_at <= tier_cache[h].cached_at
          /\ DOMAIN tier_cache' = (DOMAIN tier_cache \ {k}) \cup {w}
          /\ \A h \in DOMAIN tier_cache \ {k} : tier_cache'[h] = tier_cache[h]
          /\ Size(tier_cache') = MAX_CACHE_SIZE

\* C18: the cache never holds more than MAX_CACHE_SIZE entries, concurrent
\* calls included; a miss that inserts a new wallet into a full cache
\* removes exactly one entry, one of minimum cached_at, and leaves the
\* cache full.
C18_CacheBounded ==
    /\ [](Size(tier_cache) <= MAX_CACHE_SIZE)
    /\ [][ \A t \in Tasks :
             ( /\ calls[t].pc = "write" /\ calls'[t].pc = "idle"
               /\ Size(tier_cache) = MAX_CACHE_SIZE
               /\ calls[t].wallet \notin DOMAIN tier_cache )
             => C18_Eviction(t) ]_vars

C18_Witness ==
    /\ last_return.queried
    /\ last_return.oldest_key # ""
    /\ last_return.oldest_key \notin DOMAIN tier_cache
    /\ last_return.wallet \in DOMAIN tier_cache
    /\ Size(tier_cache) = MAX_CACHE_SIZE

\* C19: when two calls for one wallet both miss and run concurrently, the
\* cache ends with one entry for the wallet, and the call that writes last
\* leaves an entry no staler than the one it overwrites: its cached_at is
\* not earlier and its balance was not read earlier (a balance read earlier
\* is a smaller one here).
C19_LastWriteNoStaler ==
    [][ \A t \in Tasks :
          ( /\ calls[t].pc = "write" /\ calls'[t].pc = "idle"
            /\ calls[t].wallet \in DOMAIN tier_cache )
          => LET old == tier_cache[calls[t].wallet]
                 new == tier_cache'[calls[t].wallet]
             IN  /\ new.cached_at >= old.cached_at
                 /\ new.balance >= old.balance ]_vars

(***************************************************************************)
(* Claims about the keypair locks (SpecLock).                              *)
(***************************************************************************)
\* C20: no operation holds a keypair guard while a network call of its own
\* is in flight, so a load_keypair waiting for the write lock never waits
\* behind a task that is in a network call.
C20_NoGuardAcrossNetwork ==
    /\ \A t \in Tasks : Suspended(t, "net") => ops[t].held = {}
    /\ \A w, t \in Tasks :
         Suspended(w, "write") => ~(Suspended(t, "net") /\ AtStep(w).lock \in ops[t].held)

(***************************************************************************)
(* Claims about 64-bit arithmetic in the gate (SpecGate).                  *)
(***************************************************************************)
\* C29: the projected session total of check_spending_action never wraps
\* around: a spending request whose true projected total (session total
\* plus amount, in the integers) exceeds the ceiling is denied when no
\* hardware wallet is connected; and record_spending never makes the
\* session total decrease (after adding `lamports` to a total that is not
\* negative, the total is at least `lamports`).
C29_NoWrapAround ==
    /\ ( /\ IsCheck
         /\ gate_call.intent.action \in SpendingActions
         /\ ~NamedBlocked(gate_call.intent.action)
         /\ ~hardware_wallet_connected
         /\ session_spending_lamports + amount_lamports(gate_call.intent) > Sol(SESSION_LIMIT_SOL) )
       => IsDenial(gate_call.result, "Hardware")
    /\ (gate_call.op = "record_spending" /\ gate_call.result.kind = "unit")
       => session_spending_lamports >= gate_call.lamports

(* Claims about the delay bound (SpecFn). *)

\* C24: for every attempt number and both jitter settings, the delay that
\* calculate_delay returns is at most max_delay_ms.
C24_DelayAtMostMax ==
    fn_call.fn = "calculate_delay" => fn_call.result <= retry_config.max_delay_ms

(* Claims about invalidation and oracle failures (SpecAccess). *)

\* C26: once invalidate_cache(holder) has completed, no check_access call
\* writes into the cache an entry for holder built from an oracle reading
\* taken before the invalidation.
C26_NoEntryFromOlderReading ==
    [][ \A t \in Tasks :
          (calls[t].pc = "write" /\ calls'[t].pc = "idle") => ~calls[t].invalidated ]_vars

\* C30: every cache entry holds a balance the oracle reported between the
\* start of the call that wrote it and now; a failed balance query is
\* never cached as balance 0.
C30_OnlyReportedBalances ==
    \A h \in DOMAIN tier_cache :
        \E second \in tier_cache[h].cached_at .. clock :
            tier_cache[h].balance = TokensAt(second)

(* Claims about the task account decoder (SpecFn). *)

\* The buffer is shorter than the minimum length, or its discriminator
\* differs, or its state byte is not one of 0..5.
Malformed(data) ==
    \/ Len(data) < MIN_ACCOUNT_LEN
    \/ SubSeq(data, 1, Len(TASK_DISCRIMINATOR)) # TASK_DISCRIMINATOR
    \/ data[TASK_STATUS_OFFSET + 1] \notin 0 .. 5

C22_RequiredFieldsRead ==
    (fn_call.fn = "from_account_data" /\ fn_call.result.ret = "Ok")
    => /\ Len(fn_call.arg) >= Layout.deadline[2]
       /\ fn_call.result.value.reward_lamports
            = from_le_bytes(slice(fn_call.arg, Layout.reward_lamports))
       /\ fn_call.result.value.deadline
            = from_le_bytes(slice(fn_call.arg, Layout.deadline))

(* Claims about the access gating of execute_intent (Spec). *)

\* C27: execute_intent routes an action that requires a feature only after
\* gate_feature has returned Ok for the loaded wallet: never while no
\* wallet is loaded.
C27_RoutedOnlyWithWallet ==
    ( /\ last_command.command = "execute_intent"
      /\ last_command.outcome = "routed"
      /\ required_feature(last_command.intent.action) )
    => keypair = "Some"

(* Claims about the amount the gate evaluates (Spec). *)

C23_SessionWithinLimit == session_spending_lamports <= Sol(SESSION_LIMIT_SOL)

(* Claims about resubmission in execute_swap (SpecSwap). *)

\* C25: within one execute_swap call the ledger accepts at most one of the
\* transactions the call signs.
C25_AtMostOneAccepted == Cardinality(ledger_accepted) <= 1

=============================================================================
